---- MODULE Spec2Model ----
(***************************************************************************)
(* Cellular-automaton fire-spread engine                                   *)
(* (Demo-app/core/cellular_automata_engine.py, CellularAutomatonEngine).   *)
(*                                                                         *)
(* Numbers.  The engine computes in IEEE doubles.  Every quantity of the   *)
(* unit interval (intensity, moisture, fuel, probabilities, the per-kind   *)
(* rates) is held here as an integer number of thousandths, cell           *)
(* temperatures as thousandths of a degree, the weather in the units of    *)
(* the source (degrees C, percent, km/h).  FMul is the product of two      *)
(* such numbers; like a double product at these magnitudes it is 0 only    *)
(* when a factor is 0.                                                     *)
(***************************************************************************)
EXTENDS Integers, Sequences, FiniteSets, TLC

\* ------------------------------------------------------------------ bounds
GridSize == 3          \* side of the grids of Spec
MaxTicks == 4          \* step() is not called beyond this tick_count in Spec
MaxTicksSingle == 13   \* the same for the 1x1 grids of SpecSingle
ServerGridSize == 2    \* side of the grid of SpecServer
MaxServerTicks == 2    \* no step request begins beyond this tick_count in SpecServer
MaxThreads == 2        \* request threads that can be inside step() at once
InputGridSize == 2     \* side of the grid of SpecInputs
MaxInputTicks == 2     \* step() is not called beyond this tick_count in SpecInputs
LiveGridSize == 3      \* side of the grid of SpecLive
LastIgniteTick == 2    \* ignite_cell is not called from this tick_count on in SpecLive
MaxLiveTicks == 14     \* step() is not called beyond this tick_count in SpecLive
RequestGridSize == 2   \* side of the grid of SpecRequest
MaxSteps == 3          \* the largest 'steps' of a step request in SpecRequest
MaxRequestTicks == 6   \* no step request can pass this tick_count in SpecRequest
FireWidth == 2         \* width of the grid of SpecFire
FireHeight == 2        \* height of the grid of SpecFire
MaxFireSteps == 6      \* step() is not called beyond this step_count in SpecFire

\* ------------------------------------------------------- fixed-point layer
Scale == 10 * 100
NoValue == "absent"
\* active_simulations holds no FireSimulation
NoSimulation == [width |-> 0, height |-> 0]

\* an optional input: a key that may be missing from a dict
None == <<>>
Some(v) == <<v>>
Has(opt) == opt # None
Get(opt) == opt[1]

Max(a, b) == IF a >= b THEN a ELSE b
Min(a, b) == IF a <= b THEN a ELSE b
Abs(a) == IF a >= 0 THEN a ELSE -a

\* quotient rounded toward zero, for either sign of a (b > 0)
QuotZ(a, b) == IF a >= 0 THEN a \div b ELSE -((-a) \div b)

\* product of two thousandths-valued numbers
FMul(a, b) ==
    LET p == a * b
    IN  IF p = 0 THEN 0
        ELSE IF p > 0 THEN Max(1, p \div Scale)
        ELSE -Max(1, (-p) \div Scale)

\* math.sqrt of the squared length of a grid offset, in thousandths
\* (1.000 for the four orthogonal offsets, 1.414 for the four diagonal ones)
SqrtMilli(k) ==
    IF k = 1 THEN Scale
    ELSE IF k = 2 THEN 1414
    ELSE CHOOSE r \in 0..(3 * Scale) :
            r * r <= k * Scale * Scale /\ k * Scale * Scale < (r + 1) * (r + 1)

\* --------------------------------------------------------------- BurnState
UNBURNED == "unburned"
BURNING == "burning"
BURNED == "burned"
ASH == "ash"
BurnState == {UNBURNED, BURNING, BURNED, ASH}

\* ----------------------------------------------------------- WindDirection
WindDirection == {"NORTH", "NORTHEAST", "EAST", "SOUTHEAST",
                  "SOUTH", "SOUTHWEST", "WEST", "NORTHWEST"}

\* ------------------------------------------------- EnvironmentalConditions
DefaultConditions ==
    [temperature |-> 25, humidity |-> 50, wind_speed |-> 5,
     wind_direction |-> "NORTH", rain_probability |-> 0, time_of_day |-> 12]

\* ------------------------------------------------------ terrain parameters
terrain_fire_params ==
    [forest      |-> [max_burn_duration |-> 8,  spread_probability |-> 800,
                      fuel_consumption_rate |-> 120, heat_generation |-> 900,
                      moisture_loss_rate |-> 150, ignition_threshold |-> 300,
                      is_flammable |-> TRUE],
     grass       |-> [max_burn_duration |-> 3,  spread_probability |-> 950,
                      fuel_consumption_rate |-> 250, heat_generation |-> 700,
                      moisture_loss_rate |-> 300, ignition_threshold |-> 200,
                      is_flammable |-> TRUE],
     shrub       |-> [max_burn_duration |-> 5,  spread_probability |-> 750,
                      fuel_consumption_rate |-> 180, heat_generation |-> 800,
                      moisture_loss_rate |-> 200, ignition_threshold |-> 350,
                      is_flammable |-> TRUE],
     agriculture |-> [max_burn_duration |-> 4,  spread_probability |-> 600,
                      fuel_consumption_rate |-> 200, heat_generation |-> 600,
                      moisture_loss_rate |-> 250, ignition_threshold |-> 400,
                      is_flammable |-> TRUE],
     urban       |-> [max_burn_duration |-> 12, spread_probability |-> 100,
                      fuel_consumption_rate |-> 50,  heat_generation |-> 300,
                      moisture_loss_rate |-> 100, ignition_threshold |-> 900,
                      is_flammable |-> TRUE],
     water       |-> [max_burn_duration |-> 0,  spread_probability |-> 0,
                      fuel_consumption_rate |-> 0,   heat_generation |-> 0,
                      moisture_loss_rate |-> 0,   ignition_threshold |-> 999000,
                      is_flammable |-> FALSE],
     bare_ground |-> [max_burn_duration |-> 1,  spread_probability |-> 100,
                      fuel_consumption_rate |-> 800, heat_generation |-> 200,
                      moisture_loss_rate |-> 400, ignition_threshold |-> 850,
                      is_flammable |-> TRUE],
     beach       |-> [max_burn_duration |-> 1,  spread_probability |-> 50,
                      fuel_consumption_rate |-> 900, heat_generation |-> 100,
                      moisture_loss_rate |-> 500, ignition_threshold |-> 950,
                      is_flammable |-> FALSE],
     desert      |-> [max_burn_duration |-> 2,  spread_probability |-> 200,
                      fuel_consumption_rate |-> 600, heat_generation |-> 300,
                      moisture_loss_rate |-> 600, ignition_threshold |-> 800,
                      is_flammable |-> TRUE]]

KnownKinds == DOMAIN terrain_fire_params

\* faulty variant: an unknown kind falls back to the forest bundle
TerrainParamsForestFallback(terrain_type) ==
    IF terrain_type \in KnownKinds
    THEN terrain_fire_params[terrain_type]
    ELSE terrain_fire_params["forest"]

\* self.terrain_fire_params.get(terrain_type, self.terrain_fire_params['grass'])
TerrainParams(terrain_type) ==
    IF terrain_type \in KnownKinds
    THEN terrain_fire_params[terrain_type]
    ELSE terrain_fire_params["grass"]

\* ------------------------------------------------------------ neighbourhood
moore_neighbors ==
    << <<-1, -1>>, <<-1, 0>>, <<-1, 1>>,
       << 0, -1>>,            << 0, 1>>,
       << 1, -1>>, << 1, 0>>, << 1, 1>> >>

Positions(n) == (0..(n - 1)) \X (0..(n - 1))

IsValidPosition(n, row, col) == 0 <= row /\ row < n /\ 0 <= col /\ col < n

\* faulty variant: the offset (0, 1) mistyped as (0, 2)
GetNeighborsSkewed(n, row, col) ==
    LET offsets == [moore_neighbors EXCEPT ![5] = <<0, 2>>]
        cand == [i \in 1..Len(offsets) |-> <<row + offsets[i][1], col + offsets[i][2]>>]
        valid(p) == IsValidPosition(n, p[1], p[2])
    IN  SelectSeq(cand, valid)

von_neumann_neighbors == << <<-1, 0>>, <<0, -1>>, <<0, 1>>, <<1, 0>> >>

\* line 76: the Moore neighbourhood is the one in use
neighborhood == moore_neighbors

\* faulty variant: offsets that leave the grid wrap around to the opposite edge
NeighborsOfWrapping(offsets, n, row, col) ==
    [i \in 1..Len(offsets) |-> <<(row + offsets[i][1] + n) % n, (col + offsets[i][2] + n) % n>>]

\* lines 252-257: the in-bounds cells at the given offsets from (row, col),
\* in the order of the offset list
NeighborsOf(offsets, n, row, col) ==
    LET cand == [i \in 1..Len(offsets) |->
                    <<row + offsets[i][1], col + offsets[i][2]>>]
        valid(p) == IsValidPosition(n, p[1], p[2])
    IN  SelectSeq(cand, valid)

\* _get_neighbors with the neighbourhood in use
GetNeighbors(n, row, col) == NeighborsOf(neighborhood, n, row, col)

\* --------------------------------------------------------------- wind effect
WindVector(dir) ==
    CASE dir = "NORTH"     -> <<-1, 0>>
      [] dir = "NORTHEAST" -> <<-1, 1>>
      [] dir = "EAST"      -> <<0, 1>>
      [] dir = "SOUTHEAST" -> <<1, 1>>
      [] dir = "SOUTH"     -> <<1, 0>>
      [] dir = "SOUTHWEST" -> <<1, -1>>
      [] dir = "WEST"      -> <<0, -1>>
      [] dir = "NORTHWEST" -> <<-1, -1>>

MaxWindSpeed == 50
WindGain == 500
MinWindEffect == 100

\* faulty variant: the wind speed is not capped at 50 km/h
CalculateWindEffectUncapped(cond, from_row, from_col, to_row, to_col) ==
    LET dr == to_row - from_row
        dc == to_col - from_col
        w == WindVector(cond.wind_direction)
        alignment ==
            IF w[1] = 0 /\ w[2] = 0 THEN 0
            ELSE QuotZ(QuotZ((dr * w[1] + dc * w[2]) * Scale * Scale,
                             SqrtMilli(dr * dr + dc * dc)) * Scale,
                       SqrtMilli(w[1] * w[1] + w[2] * w[2]))
        wind_factor == QuotZ(cond.wind_speed * Scale, MaxWindSpeed)
        wind_effect == Scale + FMul(FMul(alignment, wind_factor), WindGain)
    IN  Max(MinWindEffect, wind_effect)

CalculateWindEffect(cond, from_row, from_col, to_row, to_col) ==
    LET dr == to_row - from_row
        dc == to_col - from_col
        w == WindVector(cond.wind_direction)
        alignment ==
            IF w[1] = 0 /\ w[2] = 0 THEN 0
            ELSE QuotZ(QuotZ((dr * w[1] + dc * w[2]) * Scale * Scale,
                             SqrtMilli(dr * dr + dc * dc)) * Scale,
                       SqrtMilli(w[1] * w[1] + w[2] * w[2]))
        wind_factor == Min(Scale, QuotZ(cond.wind_speed * Scale, MaxWindSpeed))
        wind_effect == Scale + FMul(FMul(alignment, wind_factor), WindGain)
    IN  Max(MinWindEffect, wind_effect)

\* --------------------------------------------------------- spread probability
RainWeight == 800

\* faulty variant: the flammability of the target terrain is not consulted
CalculateSpreadProbabilityAnyTerrain(cond, source_cell, target_cell, source_row, source_col, target_row, target_col) ==
    IF target_cell.burn_state # UNBURNED \/ target_cell.fuel_load <= 0 THEN 0
    ELSE IF TerrainParams(target_cell.terrain_type).spread_probability = 0 THEN 0
    ELSE
      LET base_prob == TerrainParams(target_cell.terrain_type).spread_probability
          intensity_factor == source_cell.burn_intensity
          moisture_factor == Scale - target_cell.moisture
          fuel_factor == target_cell.fuel_load
          temp_factor == Scale + (cond.temperature - 20) * 20
          humidity_factor == Scale - (cond.humidity - 50) * 10
          rain_factor == Scale - FMul(cond.rain_probability, RainWeight)
          wind_effect == CalculateWindEffect(cond, source_row, source_col,
                                             target_row, target_col)
          total_probability ==
              FMul(FMul(FMul(FMul(FMul(FMul(FMul(base_prob, intensity_factor),
                   moisture_factor), fuel_factor), temp_factor), humidity_factor),
                   rain_factor), wind_effect)
      IN  Min(Scale, Max(0, total_probability))

\* faulty variant: the product is returned as it is, without the final clamp
CalculateSpreadProbabilityUnclamped(cond, source_cell, target_cell, source_row, source_col, target_row, target_col) ==
    IF target_cell.burn_state # UNBURNED \/ target_cell.fuel_load <= 0 THEN 0
    ELSE IF ~TerrainParams(target_cell.terrain_type).is_flammable THEN 0
    ELSE IF TerrainParams(target_cell.terrain_type).spread_probability = 0 THEN 0
    ELSE
      LET base_prob == TerrainParams(target_cell.terrain_type).spread_probability
          intensity_factor == source_cell.burn_intensity
          moisture_factor == Scale - target_cell.moisture
          fuel_factor == target_cell.fuel_load
          temp_factor == Scale + (cond.temperature - 20) * 20
          humidity_factor == Scale - (cond.humidity - 50) * 10
          rain_factor == Scale - FMul(cond.rain_probability, RainWeight)
          wind_effect == CalculateWindEffect(cond, source_row, source_col,
                                             target_row, target_col)
      IN  FMul(FMul(FMul(FMul(FMul(FMul(FMul(base_prob, intensity_factor),
               moisture_factor), fuel_factor), temp_factor), humidity_factor),
               rain_factor), wind_effect)

\* faulty variant: the state of the target is not consulted
CalculateSpreadProbabilityAnyState(cond, source_cell, target_cell, source_row, source_col, target_row, target_col) ==
    IF target_cell.fuel_load <= 0 THEN 0
    ELSE IF ~TerrainParams(target_cell.terrain_type).is_flammable THEN 0
    ELSE IF TerrainParams(target_cell.terrain_type).spread_probability = 0 THEN 0
    ELSE
      LET base_prob == TerrainParams(target_cell.terrain_type).spread_probability
          intensity_factor == source_cell.burn_intensity
          moisture_factor == Scale - target_cell.moisture
          fuel_factor == target_cell.fuel_load
          temp_factor == Scale + (cond.temperature - 20) * 20
          humidity_factor == Scale - (cond.humidity - 50) * 10
          rain_factor == Scale - FMul(cond.rain_probability, RainWeight)
          wind_effect == CalculateWindEffect(cond, source_row, source_col,
                                             target_row, target_col)
          total_probability ==
              FMul(FMul(FMul(FMul(FMul(FMul(FMul(base_prob, intensity_factor),
                   moisture_factor), fuel_factor), temp_factor), humidity_factor),
                   rain_factor), wind_effect)
      IN  Min(Scale, Max(0, total_probability))

CalculateSpreadProbability(cond, source_cell, target_cell, source_row, source_col, target_row, target_col) ==
    IF target_cell.burn_state # UNBURNED \/ target_cell.fuel_load <= 0 THEN 0
    ELSE IF ~TerrainParams(target_cell.terrain_type).is_flammable THEN 0
    ELSE IF TerrainParams(target_cell.terrain_type).spread_probability = 0 THEN 0
    ELSE
      LET base_prob == TerrainParams(target_cell.terrain_type).spread_probability
          intensity_factor == source_cell.burn_intensity
          moisture_factor == Scale - target_cell.moisture
          fuel_factor == target_cell.fuel_load
          temp_factor == Scale + (cond.temperature - 20) * 20
          humidity_factor == Scale - (cond.humidity - 50) * 10
          rain_factor == Scale - FMul(cond.rain_probability, RainWeight)
          wind_effect == CalculateWindEffect(cond, source_row, source_col,
                                             target_row, target_col)
          total_probability ==
              FMul(FMul(FMul(FMul(FMul(FMul(FMul(base_prob, intensity_factor),
                   moisture_factor), fuel_factor), temp_factor), humidity_factor),
                   rain_factor), wind_effect)
      IN  Min(Scale, Max(0, total_probability))

\* ------------------------------------------------------------ one burning cell
SpreadAttenuation == 800
HeatScale == 50
MaxTemperature == 1000
BurnoutFuel == 100

\* faulty variant: burn_duration is not incremented
ConsumeCellNoAge(cell) ==
    LET tp == TerrainParams(cell.terrain_type)
    IN  [cell EXCEPT
            !.fuel_load = Max(0, cell.fuel_load
                                 - FMul(tp.fuel_consumption_rate, cell.burn_intensity)),
            !.temperature = Min(MaxTemperature * Scale,
                                cell.temperature
                                + FMul(tp.heat_generation, cell.burn_intensity) * HeatScale),
            !.moisture = Max(0, cell.moisture
                                - FMul(tp.moisture_loss_rate, cell.burn_intensity))]

\* faulty variant: the consumption is added to the fuel instead of subtracted
ConsumeCellRefuel(cell) ==
    LET tp == TerrainParams(cell.terrain_type)
    IN  [cell EXCEPT
            !.fuel_load = Max(0, cell.fuel_load
                                 + FMul(tp.fuel_consumption_rate, cell.burn_intensity)),
            !.temperature = Min(MaxTemperature * Scale,
                                cell.temperature
                                + FMul(tp.heat_generation, cell.burn_intensity) * HeatScale),
            !.moisture = Max(0, cell.moisture
                                - FMul(tp.moisture_loss_rate, cell.burn_intensity)),
            !.burn_duration = cell.burn_duration + 1]

\* faulty variant: the moisture of the cell is not floored at 0
ConsumeCellNoFloor(cell) ==
    LET tp == TerrainParams(cell.terrain_type)
    IN  [cell EXCEPT
            !.fuel_load = Max(0, cell.fuel_load
                                 - FMul(tp.fuel_consumption_rate, cell.burn_intensity)),
            !.temperature = Min(MaxTemperature * Scale,
                                cell.temperature
                                + FMul(tp.heat_generation, cell.burn_intensity) * HeatScale),
            !.moisture = cell.moisture - FMul(tp.moisture_loss_rate, cell.burn_intensity),
            !.burn_duration = cell.burn_duration + 1]

\* lines 353-366: fuel, temperature, moisture, duration of the burning cell
ConsumeCell(cell) ==
    LET tp == TerrainParams(cell.terrain_type)
        fuel_consumption == FMul(tp.fuel_consumption_rate, cell.burn_intensity)
        heat_gen == FMul(tp.heat_generation, cell.burn_intensity)
        moisture_loss == FMul(tp.moisture_loss_rate, cell.burn_intensity)
    IN  [cell EXCEPT
            !.fuel_load = Max(0, cell.fuel_load - fuel_consumption),
            !.temperature = Min(MaxTemperature * Scale,
                                cell.temperature + heat_gen * HeatScale),
            !.moisture = Max(0, cell.moisture - moisture_loss),
            !.burn_duration = cell.burn_duration + 1]

\* faulty variant: the neighbour takes the full intensity of the source
IgniteNeighborUnattenuated(neighbor_cell, source_intensity) ==
    [neighbor_cell EXCEPT
        !.burn_state = BURNING,
        !.burn_intensity = Min(Scale, source_intensity),
        !.burn_duration = 1]

\* lines 378-380: a neighbour catches fire from a source of the given intensity
IgniteNeighbor(neighbor_cell, source_intensity) ==
    [neighbor_cell EXCEPT
        !.burn_state = BURNING,
        !.burn_intensity = Min(Scale, FMul(source_intensity, SpreadAttenuation)),
        !.burn_duration = 1]

\* faulty variant: burn-out one tick late (> in place of >=)
BurnOutLate(cell, cond) ==
    IF cell.burn_duration > TerrainParams(cell.terrain_type).max_burn_duration
       \/ cell.fuel_load <= BurnoutFuel
    THEN [cell EXCEPT !.burn_state = BURNED,
                      !.burn_intensity = 0,
                      !.temperature = cond.temperature * Scale]
    ELSE cell

\* faulty variant: the intensity of a burned-out cell is not zeroed
BurnOutKeepIntensity(cell, cond) ==
    IF cell.burn_duration >= TerrainParams(cell.terrain_type).max_burn_duration
       \/ cell.fuel_load <= BurnoutFuel
    THEN [cell EXCEPT !.burn_state = BURNED,
                      !.temperature = cond.temperature * Scale]
    ELSE cell

\* faulty variant: a burned-out cell is reclassified as bare ground
BurnOutToBareGround(cell, cond) ==
    IF cell.burn_duration >= TerrainParams(cell.terrain_type).max_burn_duration
       \/ cell.fuel_load <= BurnoutFuel
    THEN [cell EXCEPT !.burn_state = BURNED,
                      !.burn_intensity = 0,
                      !.temperature = cond.temperature * Scale,
                      !.terrain_type = "bare_ground"]
    ELSE cell

\* faulty variant: a cell burns out only when its fuel is spent
BurnOutOnFuelOnly(cell, cond) ==
    IF cell.fuel_load <= 0
    THEN [cell EXCEPT !.burn_state = BURNED,
                      !.burn_intensity = 0,
                      !.temperature = cond.temperature * Scale]
    ELSE cell

\* lines 383-388: the burn-out check of the cell just processed
BurnOut(cell, cond) ==
    IF cell.burn_duration >= TerrainParams(cell.terrain_type).max_burn_duration
       \/ cell.fuel_load <= BurnoutFuel
    THEN [cell EXCEPT !.burn_state = BURNED,
                      !.burn_intensity = 0,
                      !.temperature = cond.temperature * Scale]
    ELSE cell

\* lines 370-381: the trials against neighbours i, i+1, ... of the source at pos;
\* acc = [grid, newly_burning]; draw[<<pos, nb>>] is the value of random.random()
RECURSIVE SpreadFrom(_, _, _, _, _, _)
SpreadFrom(acc, cond, pos, nbs, i, draw) ==
    IF i > Len(nbs) THEN acc
    ELSE
      LET nb == nbs[i]
          spread_prob == CalculateSpreadProbability(cond, acc.grid[pos], acc.grid[nb],
                                                    pos[1], pos[2], nb[1], nb[2])
          next == IF draw[<<pos, nb>>] < spread_prob
                  THEN [grid |-> [acc.grid EXCEPT ![nb] =
                                     IgniteNeighbor(acc.grid[nb],
                                                    acc.grid[pos].burn_intensity)],
                        newly_burning |-> Append(acc.newly_burning, nb)]
                  ELSE acc
      IN  SpreadFrom(next, cond, pos, nbs, i + 1, draw)

\* faulty variant: the cell is consumed twice in one call
UpdateBurningCellTwice(g, cond, n, pos, draw) ==
    LET g1 == [g EXCEPT ![pos] = ConsumeCell(ConsumeCell(g[pos]))]
        sp == SpreadFrom([grid |-> g1, newly_burning |-> <<>>], cond, pos,
                         GetNeighbors(n, pos[1], pos[2]), 1, draw)
    IN  [grid |-> [sp.grid EXCEPT ![pos] = BurnOut(sp.grid[pos], cond)],
         newly_burning |-> sp.newly_burning]

\* faulty variant: the burn-out check comes before the spread
UpdateBurningCellBurnOutFirst(g, cond, n, pos, draw) ==
    LET g1 == [g EXCEPT ![pos] = BurnOut(ConsumeCell(g[pos]), cond)]
        sp == SpreadFrom([grid |-> g1, newly_burning |-> <<>>], cond, pos,
                         GetNeighbors(n, pos[1], pos[2]), 1, draw)
    IN  [grid |-> sp.grid, newly_burning |-> sp.newly_burning]

\* _update_burning_cell: [grid, newly_burning] after the cell at pos is processed
UpdateBurningCell(g, cond, n, pos, draw) ==
    LET g1 == [g EXCEPT ![pos] = ConsumeCell(g[pos])]
        sp == SpreadFrom([grid |-> g1, newly_burning |-> <<>>], cond, pos,
                         GetNeighbors(n, pos[1], pos[2]), 1, draw)
    IN  [grid |-> [sp.grid EXCEPT ![pos] = BurnOut(sp.grid[pos], cond)],
         newly_burning |-> sp.newly_burning]

\* ------------------------------------------------------------------- the tick
\* lines 397-401: the burning cells, collected row by row
RowMajor(n) == [i \in 1..(n * n) |-> <<(i - 1) \div n, (i - 1) % n>>]

BurningCells(g, n) ==
    LET burning(p) == g[p].burn_state = BURNING
    IN  SelectSeq(RowMajor(n), burning)

\* lines 404-408: the cells of `order` processed one after the other
RECURSIVE UpdateAll(_, _, _, _, _, _)
UpdateAll(acc, cond, n, order, i, draw) ==
    IF i > Len(order) THEN acc
    ELSE
      LET r == UpdateBurningCell(acc.grid, cond, n, order[i], draw)
      IN  UpdateAll([grid |-> r.grid,
                     newly_ignited |-> acc.newly_ignited \o r.newly_burning],
                    cond, n, order, i + 1, draw)

\* the grid and the newly ignited list after one tick that visits `order`
TickResult(g, cond, n, order, draw) ==
    UpdateAll([grid |-> g, newly_ignited |-> <<>>], cond, n, order, 1, draw)

\* -------------------------------------------------------- _calculate_statistics
\* lines 427-441: the counters before the first cell
EmptyStatistics(n) ==
    [stats |-> [unburned |-> 0, burning |-> 0, burned |-> 0, total_cells |-> n * n,
                total_burned |-> 0, avg_intensity |-> 0, avg_temperature |-> 0,
                fuel_remaining |-> 0],
     total_intensity |-> 0, total_temperature |-> 0, total_fuel |-> 0,
     burning_count |-> 0]

\* faulty variant: a burning cell is not entered in stats['burning']
CountCellMissesBurning(acc, cell) ==
    LET counted ==
          IF cell.burn_state = UNBURNED
          THEN [acc EXCEPT !.stats.unburned = @ + 1]
          ELSE IF cell.burn_state = BURNING
          THEN [acc EXCEPT !.burning_count = @ + 1,
                           !.total_intensity = @ + cell.burn_intensity]
          ELSE [acc EXCEPT !.stats.burned = @ + 1]
    IN  [counted EXCEPT !.total_temperature = @ + cell.temperature,
                        !.total_fuel = @ + cell.fuel_load]

\* lines 445-457: one cell entered in the counters
CountCell(acc, cell) ==
    LET counted ==
          IF cell.burn_state = UNBURNED
          THEN [acc EXCEPT !.stats.unburned = @ + 1]
          ELSE IF cell.burn_state = BURNING
          THEN [acc EXCEPT !.stats.burning = @ + 1,
                           !.burning_count = @ + 1,
                           !.total_intensity = @ + cell.burn_intensity]
          ELSE [acc EXCEPT !.stats.burned = @ + 1]
    IN  [counted EXCEPT !.total_temperature = @ + cell.temperature,
                        !.total_fuel = @ + cell.fuel_load]

\* lines 443-444: the cells of `order` from the i-th on
RECURSIVE CountCells(_, _, _, _)
CountCells(acc, g, order, i) ==
    IF i > Len(order) THEN acc
    ELSE CountCells(CountCell(acc, g[order[i]]), g, order, i + 1)

CalculateStatistics(g, n) ==
    LET acc == CountCells(EmptyStatistics(n), g, RowMajor(n), 1)
    IN  [acc.stats EXCEPT
            !.total_burned = acc.stats.burned,
            !.avg_intensity = IF acc.burning_count > 0
                              THEN QuotZ(acc.total_intensity, acc.burning_count)
                              ELSE 0,
            !.avg_temperature = QuotZ(acc.total_temperature, acc.stats.total_cells),
            !.fuel_remaining = QuotZ(acc.total_fuel, acc.stats.total_cells)]

\* ---------------------------------------------------------------- the engine
VARIABLES
    grid_size,     \* self.grid_size
    grid,          \* self.grid: position -> CellState; <<>> until initialized
    tick_count,    \* self.tick_count
    conditions,    \* self.conditions
    last,          \* the operation last called and what it returned
    processed,     \* history: position -> number of step() calls that have
                   \* processed the cell since it last caught fire
    handlers,      \* request thread -> the step request it is serving: where the
                   \* call of step() stands and its local variables
    simulation     \* web-fire-app: the FireSimulation object of the simulation
                   \* its endpoints serve; NoSimulation where none is created

vars == <<grid_size, grid, tick_count, conditions, last, processed, handlers,
          simulation>>

\* ------------------------------------------------------------------- inputs
\* base moisture by terrain type (lines 182-189)
BaseMoisture(terrain_type) ==
    IF terrain_type = "water" THEN 1000
    ELSE IF terrain_type \in {"urban", "bare_ground", "desert"} THEN 200
    ELSE IF terrain_type \in {"agriculture", "grass"} THEN 500
    ELSE 600

\* one entry of the terrain classification handed to initialize
TerrainData(terrain_type, moisture_retention) ==
    [terrain_type |-> terrain_type, moisture_retention |-> moisture_retention]

\* a strip along the first row: two grass cells, then a forest cell whose
\* moisture the caller supplies; a beach cell below the strip; water elsewhere
StripKinds == <<"grass", "grass", "forest">>
StripLayout(n) ==
    [p \in Positions(n) |->
        IF p[1] = 0 /\ p[2] < Len(StripKinds)
        THEN TerrainData(StripKinds[p[2] + 1], IF p[2] = 2 THEN Some(250) ELSE None)
        ELSE IF p = <<1, 1>> THEN TerrainData("beach", None)
        ELSE TerrainData("water", None)]

UniformLayout(n, terrain_type) ==
    [p \in Positions(n) |-> TerrainData(terrain_type, None)]

Layouts(n) == {StripLayout(n), UniformLayout(n, "water")}

SingleLayouts == {UniformLayout(1, k) : k \in KnownKinds \cup {"rock"}}

\* ignition intensities offered by the caller (thousandths)
Intensities == {50, 100, 1000, 1200}

\* values random.random() can return: the least one and one just below 1.0
Draws == {0, Scale - 1}

\* a character sequence for a Python str
Str(chars) == chars

\* payloads of set_environmental_conditions; None marks an absent key
EmptyPayload ==
    [temperature |-> None, humidity |-> None, wind_speed |-> None,
     wind_direction |-> None, rain_probability |-> None, time_of_day |-> None]

Payloads ==
    { [EmptyPayload EXCEPT !.temperature = Some(40), !.humidity = Some(30)],
      [EmptyPayload EXCEPT !.wind_speed = Some(50),
                           !.wind_direction = Some(Str(<<"E", "a", "s", "t">>))] }

\* the threads in which the server runs request handlers
Threads == 1..MaxThreads

\* a thread that is not inside a call of step()
IdleHandler ==
    [pc |-> "idle", burning_cells |-> <<>>, i |-> 0, newly_ignited |-> <<>>]

\* ------------------------------------------------------------------ __init__
InitEngine(n) ==
    /\ grid_size = n
    /\ grid = <<>>
    /\ tick_count = 0
    /\ conditions = DefaultConditions
    /\ last = [op |-> "construct", ret |-> NoValue]
    /\ processed = <<>>
    /\ handlers = [t \in Threads |-> IdleHandler]
    /\ simulation = NoSimulation

\* faulty variant: the moisture the caller supplies for a cell is not used
InitialCellTableOnly(terrain_data, cond) ==
    LET terrain_type == terrain_data.terrain_type
    IN  [terrain_type |-> terrain_type,
         burn_state |-> UNBURNED,
         burn_intensity |-> 0,
         burn_duration |-> 0,
         moisture |-> BaseMoisture(terrain_type),
         fuel_load |-> IF TerrainParams(terrain_type).is_flammable THEN Scale ELSE 0,
         temperature |-> cond.temperature * Scale]

\* ------------------------------------------------ initialize_from_terrain_grid
InitialCell(terrain_data, cond) ==
    LET terrain_type == terrain_data.terrain_type
        moisture == IF Has(terrain_data.moisture_retention)
                    THEN Get(terrain_data.moisture_retention)
                    ELSE BaseMoisture(terrain_type)
    IN  [terrain_type |-> terrain_type,
         burn_state |-> UNBURNED,
         burn_intensity |-> 0,
         burn_duration |-> 0,
         moisture |-> moisture,
         fuel_load |-> IF TerrainParams(terrain_type).is_flammable THEN Scale ELSE 0,
         temperature |-> cond.temperature * Scale]

\* the rows the loops of lines 168-206 complete: all of them when the
\* classification has an entry for every cell of the grid, otherwise those
\* above the first row in which terrain_grid[row][col] raises IndexError
BuiltRows(terrain_grid, n) ==
    LET missing == {p \in Positions(n) : p \notin DOMAIN terrain_grid}
    IN  {p \in Positions(n) : \A q \in missing : p[1] < q[1]}

\* called once, on the engine just constructed (create_simulation, lines 41-42).
\* terrain_grid maps the (row, col) pairs the nested lists have an entry for;
\* entries beyond the grid are never read.
InitializeFromTerrainGrid(terrain_grid) ==
    /\ grid = <<>>
    /\ grid' = [p \in BuiltRows(terrain_grid, grid_size) |->
                  InitialCell(terrain_grid[p], conditions)]
    /\ last' = [op |-> "initialize",
                ret |-> IF BuiltRows(terrain_grid, grid_size) = Positions(grid_size)
                        THEN NoValue ELSE "IndexError"]
    /\ processed' = [p \in BuiltRows(terrain_grid, grid_size) |-> 0]
    /\ UNCHANGED <<grid_size, tick_count, conditions, handlers, simulation>>

\* the simulation is in active_simulations: create_simulation stores the engine
\* once initialize_from_terrain_grid has returned
Registered == grid # <<>> /\ DOMAIN grid = Positions(grid_size)

\* ----------------------------------------------------------------- ignite_cell
\* faulty variant: the burn state of the cell is not consulted
CanIgniteAnyState(cell, intensity) ==
    /\ TerrainParams(cell.terrain_type).is_flammable
    /\ cell.fuel_load > 0
    /\ intensity > FMul(cell.moisture, TerrainParams(cell.terrain_type).ignition_threshold)

\* faulty variant: an intensity equal to the moisture resistance ignites
CanIgniteAtThreshold(cell, intensity) ==
    /\ TerrainParams(cell.terrain_type).is_flammable
    /\ cell.burn_state = UNBURNED
    /\ cell.fuel_load > 0
    /\ intensity >= FMul(cell.moisture, TerrainParams(cell.terrain_type).ignition_threshold)

\* lines 229-234: may the cell be set alight at this intensity
CanIgnite(cell, intensity) ==
    /\ TerrainParams(cell.terrain_type).is_flammable
    /\ cell.burn_state = UNBURNED
    /\ cell.fuel_load > 0
    /\ intensity > FMul(cell.moisture, TerrainParams(cell.terrain_type).ignition_threshold)

\* lines 235-237
IgnitedCell(cell, intensity) ==
    [cell EXCEPT !.burn_state = BURNING,
                 !.burn_intensity = Min(Scale, intensity),
                 !.burn_duration = 1]

IgniteCell(row, col, intensity) ==
    /\ Registered
    /\ IF IsValidPosition(grid_size, row, col) /\ CanIgnite(grid[<<row, col>>], intensity)
       THEN /\ grid' = [grid EXCEPT ![<<row, col>>] = IgnitedCell(@, intensity)]
            /\ last' = [op |-> "ignite", ret |-> TRUE]
            /\ processed' = [processed EXCEPT ![<<row, col>>] = 0]
       ELSE /\ grid' = grid
            /\ last' = [op |-> "ignite", ret |-> FALSE]
            /\ processed' = processed
    /\ UNCHANGED <<grid_size, tick_count, conditions, handlers, simulation>>

\* ------------------------------------------------------------------------ step
\* the trials of a tick: every (burning cell, neighbour) pair
TrialPairs(g, n) ==
    LET order == BurningCells(g, n)
    IN  UNION { { <<order[i], GetNeighbors(n, order[i][1], order[i][2])[j]>> :
                    j \in 1..Len(GetNeighbors(n, order[i][1], order[i][2])) } :
                i \in 1..Len(order) }

\* the draws explored for a tick.  A trial succeeds when its draw is below its
\* probability, so only a probability strictly between 0 and 1 leaves the
\* outcome to the draw: those trials get every value of Draws.  A trial whose
\* probability on the grid the tick starts from is 0 or 1 gets the least draw,
\* under which it succeeds as soon as its probability is positive when it runs.
DrawFunctions(g, cond, n) ==
    LET pairs == TrialPairs(g, n)
        prob(pr) == CalculateSpreadProbability(cond, g[pr[1]], g[pr[2]],
                                               pr[1][1], pr[1][2], pr[2][1], pr[2][2])
        open == {pr \in pairs : 0 < prob(pr) /\ prob(pr) < Scale}
    IN  { [pr \in pairs |-> IF pr \in open THEN f[pr] ELSE 0] : f \in [open -> Draws] }

\* faulty variant: is_active is taken from the grid after the update
StepSummaryActiveAfter(tick, burning_cells, newly_ignited, stats) ==
    [tick |-> tick,
     burning_cells |-> Len(burning_cells),
     newly_ignited |-> Len(newly_ignited),
     statistics |-> stats,
     is_active |-> stats.burning > 0]

\* lines 417-423
StepSummary(tick, burning_cells, newly_ignited, stats) ==
    [tick |-> tick,
     burning_cells |-> Len(burning_cells),
     newly_ignited |-> Len(newly_ignited),
     statistics |-> stats,
     is_active |-> Len(burning_cells) > 0]

Step(limit) ==
    /\ Registered
    /\ tick_count < limit
    /\ \E burning_cells \in {BurningCells(grid, grid_size)} :
       \E draw \in DrawFunctions(grid, conditions, grid_size) :
       \E r \in {TickResult(grid, conditions, grid_size, burning_cells, draw)} :
         /\ tick_count' = tick_count + 1
         /\ grid' = r.grid
         /\ last' = [op |-> "step",
                     ret |-> StepSummary(tick_count + 1, burning_cells, r.newly_ignited,
                                         CalculateStatistics(r.grid, grid_size))]
         /\ processed' =
                [p \in DOMAIN grid |->
                    IF grid[p].burn_state = BURNING THEN processed[p] + 1
                    ELSE IF r.grid[p].burn_state = BURNING THEN 0
                    ELSE processed[p]]
    /\ UNCHANGED <<grid_size, conditions, handlers, simulation>>

\* ------------------------------------------------ set_environmental_conditions
LowerChar(ch) ==
    CASE ch = "A" -> "a" [] ch = "E" -> "e" [] ch = "H" -> "h" [] ch = "N" -> "n"
      [] ch = "O" -> "o" [] ch = "R" -> "r" [] ch = "S" -> "s" [] ch = "T" -> "t"
      [] ch = "U" -> "u" [] ch = "W" -> "w" [] OTHER -> ch

Lower(str) == [i \in 1..Len(str) |-> LowerChar(str[i])]

\* faulty variant: the name is looked up as the caller spelled it
WindDirMapCaseSensitive(name) ==
    LET key == name
    IN  CASE key = <<"n", "o", "r", "t", "h">> -> "NORTH"
          [] key = <<"n", "o", "r", "t", "h", "e", "a", "s", "t">> -> "NORTHEAST"
          [] key = <<"e", "a", "s", "t">> -> "EAST"
          [] key = <<"s", "o", "u", "t", "h", "e", "a", "s", "t">> -> "SOUTHEAST"
          [] key = <<"s", "o", "u", "t", "h">> -> "SOUTH"
          [] key = <<"s", "o", "u", "t", "h", "w", "e", "s", "t">> -> "SOUTHWEST"
          [] key = <<"w", "e", "s", "t">> -> "WEST"
          [] key = <<"n", "o", "r", "t", "h", "w", "e", "s", "t">> -> "NORTHWEST"
          [] OTHER -> "NORTH"

\* wind_dir_map.get(name.lower(), WindDirection.NORTH)
WindDirMap(name) ==
    LET key == Lower(name)
    IN  CASE key = <<"n", "o", "r", "t", "h">> -> "NORTH"
          [] key = <<"n", "o", "r", "t", "h", "e", "a", "s", "t">> -> "NORTHEAST"
          [] key = <<"e", "a", "s", "t">> -> "EAST"
          [] key = <<"s", "o", "u", "t", "h", "e", "a", "s", "t">> -> "SOUTHEAST"
          [] key = <<"s", "o", "u", "t", "h">> -> "SOUTH"
          [] key = <<"s", "o", "u", "t", "h", "w", "e", "s", "t">> -> "SOUTHWEST"
          [] key = <<"w", "e", "s", "t">> -> "WEST"
          [] key = <<"n", "o", "r", "t", "h", "w", "e", "s", "t">> -> "NORTHWEST"
          [] OTHER -> "NORTH"

\* faulty variant: the payload replaces the conditions, absent fields return
\* to the values of a fresh EnvironmentalConditions
UpdatedConditionsReplace(cond, payload) ==
    [temperature |-> IF Has(payload.temperature)
        THEN Get(payload.temperature) ELSE DefaultConditions.temperature,
     humidity |-> IF Has(payload.humidity)
        THEN Get(payload.humidity) ELSE DefaultConditions.humidity,
     wind_speed |-> IF Has(payload.wind_speed)
        THEN Get(payload.wind_speed) ELSE DefaultConditions.wind_speed,
     wind_direction |-> IF Has(payload.wind_direction)
                        THEN WindDirMap(Get(payload.wind_direction))
                        ELSE DefaultConditions.wind_direction,
     rain_probability |-> IF Has(payload.rain_probability)
        THEN Get(payload.rain_probability) ELSE DefaultConditions.rain_probability,
     time_of_day |-> IF Has(payload.time_of_day)
        THEN Get(payload.time_of_day) ELSE DefaultConditions.time_of_day]

UpdatedConditions(cond, payload) ==
    [temperature |-> IF Has(payload.temperature)
        THEN Get(payload.temperature) ELSE cond.temperature,
     humidity |-> IF Has(payload.humidity)
        THEN Get(payload.humidity) ELSE cond.humidity,
     wind_speed |-> IF Has(payload.wind_speed)
        THEN Get(payload.wind_speed) ELSE cond.wind_speed,
     wind_direction |-> IF Has(payload.wind_direction)
                        THEN WindDirMap(Get(payload.wind_direction))
                        ELSE cond.wind_direction,
     rain_probability |-> IF Has(payload.rain_probability)
        THEN Get(payload.rain_probability) ELSE cond.rain_probability,
     time_of_day |-> IF Has(payload.time_of_day)
        THEN Get(payload.time_of_day) ELSE cond.time_of_day]

SetEnvironmentalConditions(payload) ==
    /\ Registered
    /\ conditions' = UpdatedConditions(conditions, payload)
    /\ last' = [op |-> "set_environmental_conditions", ret |-> NoValue]
    /\ UNCHANGED <<grid_size, grid, tick_count, processed, handlers, simulation>>

\* ----------------------------------------------------------------------- reset
ResetMoisture(terrain_type) ==
    IF terrain_type = "water" THEN 1000
    ELSE IF terrain_type \in {"urban", "bare_ground"} THEN 200
    ELSE 500

\* faulty variant: the temperature of the cell is left as the fire left it
ResetCellKeepTemperature(cell, cond) ==
    [cell EXCEPT !.burn_state = UNBURNED,
                 !.burn_intensity = 0,
                 !.burn_duration = 0,
                 !.fuel_load = Scale,
                 !.moisture = ResetMoisture(cell.terrain_type)]

ResetCell(cell, cond) ==
    [cell EXCEPT !.burn_state = UNBURNED,
                 !.burn_intensity = 0,
                 !.burn_duration = 0,
                 !.fuel_load = Scale,
                 !.temperature = cond.temperature * Scale,
                 !.moisture = ResetMoisture(cell.terrain_type)]

Reset ==
    /\ Registered
    /\ tick_count' = 0
    /\ grid' = [p \in DOMAIN grid |-> ResetCell(grid[p], conditions)]
    /\ last' = [op |-> "reset", ret |-> NoValue]
    /\ processed' = [p \in DOMAIN grid |-> 0]
    /\ UNCHANGED <<grid_size, conditions, handlers, simulation>>

\* ------------------------------------------------------------ specifications
\* the cells of the grid and a ring of out-of-bounds coordinates around it
IgnitePositions(n) ==
    Positions(n) \cup {<<-1, 0>>, <<0, -1>>, <<n, 0>>, <<0, n>>, <<-1, -1>>, <<n, n>>}

IgniteInputs(n) == IgnitePositions(n) \X Intensities

Init == InitEngine(GridSize)

Next ==
    \/ \E terrain_grid \in Layouts(grid_size) : InitializeFromTerrainGrid(terrain_grid)
    \/ \E a \in IgniteInputs(grid_size) : IgniteCell(a[1][1], a[1][2], a[2])
    \/ Step(MaxTicks)
    \/ \E payload \in Payloads : SetEnvironmentalConditions(payload)
    \/ Reset

Spec == Init /\ [][Next]_vars

\* the single-cell engine, one grid per terrain kind
InitSingle == InitEngine(1)

NextSingle ==
    \/ \E terrain_grid \in SingleLayouts : InitializeFromTerrainGrid(terrain_grid)
    \/ \E a \in IgniteInputs(grid_size) : IgniteCell(a[1][1], a[1][2], a[2])
    \/ Step(MaxTicksSingle)
    \/ \E payload \in Payloads : SetEnvironmentalConditions(payload)
    \/ Reset

SpecSingle == InitSingle /\ [][NextSingle]_vars

\* ------------------------------------------------------------- the web server
\* enhanced_simulation_api.py: the handlers of one simulation of
\* active_simulations.  app.run() serves every request in a thread of its own
\* and the handlers take no lock, so a thread inside engine.step() can be
\* switched out between two statements.  The model switches threads between
\* the calls of _update_burning_cell; the other requests are short and run
\* here in one piece.

\* get_grid_state: one dict per cell
GetGridState(g, n) ==
    [p \in Positions(n) |->
        [terrain_type |-> g[p].terrain_type,
         burn_state |-> g[p].burn_state,
         burn_intensity |-> g[p].burn_intensity,
         burn_duration |-> g[p].burn_duration,
         moisture |-> g[p].moisture,
         fuel_load |-> g[p].fuel_load,
         temperature |-> g[p].temperature,
         row |-> p[1],
         col |-> p[2]]]

\* the draws explored for the trials of one source cell (see DrawFunctions)
CellDraws(g, cond, n, pos) ==
    LET nbs == GetNeighbors(n, pos[1], pos[2])
        pairs == {<<pos, nbs[j]>> : j \in 1..Len(nbs)}
        prob(pr) == CalculateSpreadProbability(cond, g[pr[1]], g[pr[2]],
                                               pr[1][1], pr[1][2], pr[2][1], pr[2][2])
        open == {pr \in pairs : 0 < prob(pr) /\ prob(pr) < Scale}
    IN  { [pr \in pairs |-> IF pr \in open THEN f[pr] ELSE 0] : f \in [open -> Draws] }

\* step_simulation (steps = 1), engine.step() lines 394-401: the tick is
\* counted and the burning cells are collected
StepBegin(t) ==
    /\ Registered
    /\ handlers[t].pc = "idle"
    /\ tick_count < MaxServerTicks
    /\ tick_count' = tick_count + 1
    /\ handlers' = [handlers EXCEPT ![t] =
                      [pc |-> "update",
                       burning_cells |-> BurningCells(grid, grid_size),
                       i |-> 1,
                       newly_ignited |-> <<>>]]
    /\ last' = [op |-> "step_begin", ret |-> NoValue]
    /\ UNCHANGED <<grid_size, grid, conditions, processed, simulation>>

\* engine.step() lines 405-408: one pass of the loop over burning_cells
StepUpdate(t) ==
    /\ handlers[t].pc = "update"
    /\ handlers[t].i <= Len(handlers[t].burning_cells)
    /\ \E pos \in {handlers[t].burning_cells[handlers[t].i]} :
       \E draw \in CellDraws(grid, conditions, grid_size, pos) :
       \E r \in {UpdateBurningCell(grid, conditions, grid_size, pos, draw)} :
         /\ grid' = r.grid
         /\ handlers' = [handlers EXCEPT ![t].i = @ + 1,
                                         ![t].newly_ignited = @ \o r.newly_burning]
         /\ processed' = [p \in DOMAIN grid |->
                            IF p = pos THEN processed[p] + 1
                            ELSE IF grid[p].burn_state # BURNING
                                    /\ r.grid[p].burn_state = BURNING THEN 0
                            ELSE processed[p]]
    /\ last' = [op |-> "step_update", ret |-> NoValue]
    /\ UNCHANGED <<grid_size, tick_count, conditions, simulation>>

\* engine.step() lines 411-423: the statistics and the summary
StepReturn(t) ==
    /\ handlers[t].pc = "update"
    /\ handlers[t].i > Len(handlers[t].burning_cells)
    /\ last' = [op |-> "step",
                ret |-> StepSummary(tick_count, handlers[t].burning_cells,
                                    handlers[t].newly_ignited,
                                    CalculateStatistics(grid, grid_size))]
    /\ handlers' = [handlers EXCEPT ![t] = IdleHandler]
    /\ UNCHANGED <<grid_size, grid, tick_count, conditions, processed, simulation>>

\* faulty variant: the status request ages the fire it reports
GetSimulationStatusAging ==
    /\ Registered
    /\ last' = [op |-> "status",
                ret |-> [current_tick |-> tick_count,
                         grid_state |-> GetGridState(grid, grid_size),
                         statistics |-> CalculateStatistics(grid, grid_size)]]
    /\ grid' = [p \in DOMAIN grid |->
                  IF grid[p].burn_state = BURNING
                  THEN [grid[p] EXCEPT !.burn_intensity = @ \div 2]
                  ELSE grid[p]]
    /\ UNCHANGED <<grid_size, tick_count, conditions, processed, handlers, simulation>>

\* get_simulation_status: the grid, the statistics and the tick, read only
GetSimulationStatus ==
    /\ Registered
    /\ last' = [op |-> "status",
                ret |-> [current_tick |-> tick_count,
                         grid_state |-> GetGridState(grid, grid_size),
                         statistics |-> CalculateStatistics(grid, grid_size)]]
    /\ UNCHANGED <<grid_size, grid, tick_count, conditions, processed, handlers, simulation>>

\* the terrain of the simulation of SpecServer: two grass cells side by side,
\* a beach cell below them, water elsewhere
ServerLayout(n) ==
    [p \in Positions(n) |->
        IF p \in {<<0, 0>>, <<0, 1>>} THEN TerrainData("grass", None)
        ELSE IF p = <<1, 1>> THEN TerrainData("beach", None)
        ELSE TerrainData("water", None)]

\* the cells and the intensity the clients of SpecServer ignite
ServerIgniteInputs(n) == Positions(n) \X {Scale}

InitServer == InitEngine(ServerGridSize)

NextServer ==
    \/ InitializeFromTerrainGrid(ServerLayout(grid_size))
    \/ \E a \in ServerIgniteInputs(grid_size) : IgniteCell(a[1][1], a[1][2], a[2])
    \/ \E t \in Threads : StepBegin(t)
    \/ \E t \in Threads : StepUpdate(t)
    \/ \E t \in Threads : StepReturn(t)
    \/ Reset
    \/ GetSimulationStatus

SpecServer == InitServer /\ [][NextServer]_vars

\* ------------------------------------- the engine under the inputs it accepts
\* the entries rows x cols nested lists have
Rect(rows, cols) == {<<r, c>> : r \in 0..(rows - 1), c \in 0..(cols - 1)}

\* a classification with an entry at every position of shape: grass in the
\* top-left 2 x 2 block, water around it; the caller supplies the moisture of
\* two of the grass cells (saturated at (0,1), above saturation at (1,0))
Classification(shape) ==
    [p \in shape |->
        IF p = <<0, 1>> THEN TerrainData("grass", Some(Scale))
        ELSE IF p = <<1, 0>> THEN TerrainData("grass", Some(Scale + 200))
        ELSE IF p \in {<<0, 0>>, <<1, 1>>} THEN TerrainData("grass", None)
        ELSE TerrainData("water", None)]

\* shapes a caller may hand to a grid of side n: the matching square, squares
\* that are larger and smaller, rectangles that are wider, taller and narrower,
\* and a ragged one whose last row lacks its last entry
InputShapes(n) ==
    {Positions(n), Positions(n + 1), Positions(n - 1),
     Rect(n, n + 1), Rect(n + 1, n), Rect(n, n - 1),
     Positions(n) \ {<<n - 1, n - 1>>}}

InputLayouts(n) == {Classification(shape) : shape \in InputShapes(n)}

\* the cell the clients of SpecInputs ignite, and the intensity
InputIgniteInputs == {<<0, 0>>} \X {Scale}

\* compass names as callers spell them, and names the map does not hold
WindNames ==
    { Str(<<"n", "o", "r", "t", "h">>),
      Str(<<"N", "o", "r", "t", "h", "E", "a", "s", "t">>),
      Str(<<"E", "A", "S", "T">>),
      Str(<<"S", "o", "u", "t", "h", "E", "a", "s", "t">>),
      Str(<<"s", "O", "U", "T", "H">>),
      Str(<<"S", "o", "u", "t", "h", "W", "e", "s", "t">>),
      Str(<<"W", "e", "s", "t">>),
      Str(<<"N", "O", "R", "T", "H", "W", "E", "S", "T">>),
      Str(<<"N", "N", "E">>),
      Str(<<"u", "p", "w", "i", "n", "d">>) }

\* payloads that set one field or a few, with values inside and outside the
\* ranges the weather normally takes
WeatherPayloads ==
    { [EmptyPayload EXCEPT !.temperature = Some(-40), !.humidity = Some(160)],
      [EmptyPayload EXCEPT !.temperature = Some(40), !.humidity = Some(30)],
      [EmptyPayload EXCEPT !.rain_probability = Some(Scale + 500),
                           !.time_of_day = Some(18)],
      [EmptyPayload EXCEPT !.wind_speed = Some(0)],
      [EmptyPayload EXCEPT !.wind_speed = Some(100)] }
    \cup {[EmptyPayload EXCEPT !.wind_direction = Some(name)] : name \in WindNames}

InitInputs == InitEngine(InputGridSize)

NextInputs ==
    \/ \E terrain_grid \in InputLayouts(grid_size) :
          InitializeFromTerrainGrid(terrain_grid)
    \/ \E a \in InputIgniteInputs : IgniteCell(a[1][1], a[1][2], a[2])
    \/ Step(MaxInputTicks)
    \/ \E payload \in WeatherPayloads : SetEnvironmentalConditions(payload)

SpecInputs == InitInputs /\ [][NextInputs]_vars

\* ------------------------------------------------- the engine stepped for ever
\* a client that ignites cells during the first ticks only and never resets
InitLive == InitEngine(LiveGridSize)

NextLive ==
    \/ \E terrain_grid \in Layouts(grid_size) : InitializeFromTerrainGrid(terrain_grid)
    \/ \E a \in ServerIgniteInputs(grid_size) :
          tick_count < LastIgniteTick /\ IgniteCell(a[1][1], a[1][2], a[2])
    \/ Step(MaxLiveTicks)
    \/ \E payload \in Payloads : SetEnvironmentalConditions(payload)

\* a call of step() returns: among the transitions of NextLive those of Step
\* are the ones that advance tick_count, and step() has no failing path, so
\* that a call can return wherever Step's guard holds
StepReturns ==
    /\ Registered
    /\ tick_count < MaxLiveTicks
    /\ tick_count' = tick_count + 1

\* step() is called again and again
SpecLive == InitLive /\ [][NextLive]_vars /\ WF_tick_count(StepReturns)

\* ------------------------------------------------- step_simulation (the route)
\* the states one call of engine.step() in the loop of lines 152-159 can leave;
\* st = [grid, tick_count, processed, step_results]
EngineStepOutcomes(st, cond, n) ==
    UNION { UNION { { [grid |-> r.grid,
                       tick_count |-> st.tick_count + 1,
                       processed |->
                           [p \in DOMAIN st.grid |->
                               IF st.grid[p].burn_state = BURNING THEN st.processed[p] + 1
                               ELSE IF r.grid[p].burn_state = BURNING THEN 0
                               ELSE st.processed[p]],
                       step_results |->
                           Append(st.step_results,
                                  StepSummary(st.tick_count + 1, burning_cells,
                                              r.newly_ignited,
                                              CalculateStatistics(r.grid, n)))]
                      : r \in {TickResult(st.grid, cond, n, burning_cells, draw)} }
                    : draw \in DrawFunctions(st.grid, cond, n) }
            : burning_cells \in {BurningCells(st.grid, n)} }

\* for i in range(steps): step, append the result, break if not is_active.
\* The states in which the loop can end when it starts in st with
\* 'remaining' iterations to go
RECURSIVE StepLoop(_, _, _, _)
StepLoop(st, cond, n, remaining) ==
    IF remaining <= 0 THEN {st}
    ELSE UNION { IF ~stepped.step_results[Len(stepped.step_results)].is_active
                 THEN {stepped}
                 ELSE StepLoop(stepped, cond, n, remaining - 1)
                 : stepped \in EngineStepOutcomes(st, cond, n) }

\* the response of lines 169-178
StepResponse(st) ==
    [steps_executed |-> Len(st.step_results),
     current_tick |-> st.tick_count,
     step_results |-> st.step_results,
     is_active |-> IF st.step_results = <<>> THEN FALSE
                   ELSE st.step_results[Len(st.step_results)].is_active]

StepSimulation(steps, limit) ==
    /\ Registered
    /\ tick_count + steps <= limit
    /\ \E st \in StepLoop([grid |-> grid, tick_count |-> tick_count,
                           processed |-> processed, step_results |-> <<>>],
                          conditions, grid_size, steps) :
         /\ grid' = st.grid
         /\ tick_count' = st.tick_count
         /\ processed' = st.processed
         /\ last' = [op |-> "step_simulation", arg |-> steps, ret |-> StepResponse(st)]
    /\ UNCHANGED <<grid_size, conditions, handlers, simulation>>

\* the values of 'steps' the clients of SpecRequest send
StepCounts == 0..MaxSteps

InitRequest == InitEngine(RequestGridSize)

NextRequest ==
    \/ InitializeFromTerrainGrid(ServerLayout(grid_size))
    \/ \E a \in ServerIgniteInputs(grid_size) : IgniteCell(a[1][1], a[1][2], a[2])
    \/ \E steps \in StepCounts : StepSimulation(steps, MaxRequestTicks)
    \/ \E payload \in Payloads : SetEnvironmentalConditions(payload)

SpecRequest == InitRequest /\ [][NextRequest]_vars

\* ============================================== web-fire-app: FireSimulation
\* core/fire_engine.py and api/simulation_api.py of web-fire-app.  Numbers
\* with a fraction are in thousandths, as above.
EngineVars == <<grid_size, grid, tick_count, conditions, processed, handlers>>

\* Config.BURN_TIME
BURN_TIME == 5
\* Config.SPREAD_PROBABILITY (0.4)
SPREAD_PROBABILITY == 400

\* Config.TERRAIN_TYPES, in the order of the dict
TerrainTypeNames ==
    <<"water", "urban", "bare_ground", "grass", "shrub", "forest", "agriculture">>

TERRAIN_TYPES(terrain_type) ==
    CASE terrain_type = "water" ->
            [color |-> <<0, 100, 200>>, fuel_load |-> 0, spread_rate |-> 0]
      [] terrain_type = "urban" ->
            [color |-> <<128, 128, 128>>, fuel_load |-> 100, spread_rate |-> 200]
      [] terrain_type = "bare_ground" ->
            [color |-> <<139, 69, 19>>, fuel_load |-> 50, spread_rate |-> 100]
      [] terrain_type = "shrub" ->
            [color |-> <<34, 139, 34>>, fuel_load |-> 600, spread_rate |-> 700]
      [] terrain_type = "forest" ->
            [color |-> <<0, 100, 0>>, fuel_load |-> 1000, spread_rate |-> 800]
      [] terrain_type = "agriculture" ->
            [color |-> <<255, 215, 0>>, fuel_load |-> 400, spread_rate |-> 500]
      \* 'grass', and Config.TERRAIN_TYPES.get(.., TERRAIN_TYPES['grass'])
      [] OTHER ->
            [color |-> <<124, 252, 0>>, fuel_load |-> 800, spread_rate |-> 900]

\* fire_state: 0=normal, 1=burning, 2=burned
FIRE_NORMAL == 0
FIRE_BURNING == 1
FIRE_BURNED == 2

\* FireCell.__init__
FireCell(terrain_type) ==
    [terrain_type |-> terrain_type,
     fire_state |-> FIRE_NORMAL,
     fuel_load |-> TERRAIN_TYPES(terrain_type).fuel_load,
     burn_time |-> 0,
     max_burn_time |-> BURN_TIME]

\* FireCell.can_ignite
FireCellCanIgnite(cell) ==
    /\ cell.fire_state = FIRE_NORMAL
    /\ cell.fuel_load > 0
    /\ cell.terrain_type \notin {"water", "urban"}

\* FireCell.ignite
FireCellIgnite(cell) ==
    IF FireCellCanIgnite(cell)
    THEN [cell EXCEPT !.fire_state = FIRE_BURNING, !.burn_time = 0]
    ELSE cell

\* WeatherConditions and its defaults: km/h, degrees, percent, celsius, mm/hour
WeatherConditions(wind_speed, wind_direction, humidity, temperature, precipitation) ==
    [wind_speed |-> wind_speed, wind_direction |-> wind_direction,
     humidity |-> humidity, temperature |-> temperature,
     precipitation |-> precipitation]

DefaultWeather == WeatherConditions(5, 0, 50, 25, 0)

\* FireCell.update: the cell after one step under the weather
FireCellUpdate(cell, weather) ==
    IF cell.fire_state = FIRE_BURNING
    THEN IF weather.precipitation > 5
         THEN [cell EXCEPT !.burn_time = @ + 1, !.fire_state = FIRE_NORMAL]
         ELSE IF cell.burn_time + 1 >= cell.max_burn_time
         THEN [cell EXCEPT !.burn_time = @ + 1, !.fire_state = FIRE_BURNED,
                           !.fuel_load = 0]
         ELSE [cell EXCEPT !.burn_time = @ + 1]
    ELSE cell

\* the coordinates (x, y) of the cells of a width x height grid: grid[y][x]
FirePositions(width, height) == (0..(width - 1)) \X (0..(height - 1))

\* _find_closest_terrain_type: the name of the colour itself, else the first
\* name of the map at the least squared distance ('grass' for an empty map)
ColorDistance(a, b) ==
    (a[1] - b[1]) * (a[1] - b[1]) + (a[2] - b[2]) * (a[2] - b[2])
        + (a[3] - b[3]) * (a[3] - b[3])

FindClosestTerrainType(pixel_color, terrain_map) ==
    IF \E i \in 1..Len(terrain_map) : terrain_map[i][1] = pixel_color
    THEN LET i == CHOOSE i \in 1..Len(terrain_map) :
                      /\ terrain_map[i][1] = pixel_color
                      /\ \A j \in (i + 1)..Len(terrain_map) :
                             terrain_map[j][1] # pixel_color
         IN  terrain_map[i][2]
    ELSE IF terrain_map = <<>> THEN "grass"
    ELSE LET i == CHOOSE i \in 1..Len(terrain_map) :
                      /\ \A j \in 1..Len(terrain_map) :
                             ColorDistance(pixel_color, terrain_map[i][1])
                                 <= ColorDistance(pixel_color, terrain_map[j][1])
                      /\ \A j \in 1..(i - 1) :
                             ColorDistance(pixel_color, terrain_map[i][1])
                                 < ColorDistance(pixel_color, terrain_map[j][1])
         IN  terrain_map[i][2]

\* FireSimulation.__init__
NewFireSimulation(width, height) ==
    [width |-> width,
     height |-> height,
     grid |-> [p \in FirePositions(width, height) |-> FireCell("grass")],
     weather |-> DefaultWeather,
     step_count |-> 0,
     burning_cells |-> 0,
     burned_cells |-> 0,
     total_burned_area |-> 0]

\* set_terrain_from_bitmap, for a bitmap of the shape of the grid
SetTerrainFromBitmap(sim, terrain_bitmap, terrain_map) ==
    [sim EXCEPT !.grid =
        [p \in DOMAIN sim.grid |->
            FireCell(FindClosestTerrainType(terrain_bitmap[p], terrain_map))]]

\* create_simulation: an all-grass grid, or the terrain of terrain_data
CreateSimulation(width, height, terrain_data) ==
    IF Has(terrain_data)
    THEN SetTerrainFromBitmap(NewFireSimulation(width, height),
                              Get(terrain_data).bitmap, Get(terrain_data).color_map)
    ELSE NewFireSimulation(width, height)

\* np.sin and np.cos of np.radians(wind_direction), for the quarter turns
SinDeg(degrees) ==
    CASE degrees = 0 -> 0 [] degrees = 90 -> Scale
      [] degrees = 180 -> 0 [] degrees = 270 -> -Scale

CosDeg(degrees) ==
    CASE degrees = 0 -> Scale [] degrees = 90 -> 0
      [] degrees = 180 -> -Scale [] degrees = 270 -> 0

\* _calculate_spread_probability
FireSpreadProbability(sim, from_x, from_y, to_x, to_y, base_rate) ==
    LET dx == to_x - from_x
        dy == to_y - from_y
        wind_dx == SinDeg(sim.weather.wind_direction)
        wind_dy == CosDeg(sim.weather.wind_direction)
        wind_alignment ==
            QuotZ((dx * wind_dx + dy * wind_dy) * Scale, SqrtMilli(dx * dx + dy * dy))
        wind_multiplier == Scale + QuotZ(wind_alignment * sim.weather.wind_speed, 20)
        terrain_factor == TERRAIN_TYPES(sim.grid[<<to_x, to_y>>].terrain_type).spread_rate
        humidity_factor == Max(100, Scale - QuotZ(sim.weather.humidity * Scale, 100))
        temp_factor ==
            Min(2 * Scale, Max(500, QuotZ((sim.weather.temperature - 10) * Scale, 30)))
        final_probability ==
            FMul(FMul(FMul(FMul(FMul(base_rate, terrain_factor), wind_multiplier),
                           humidity_factor), temp_factor), SPREAD_PROBABILITY)
    IN  Min(Scale, Max(0, final_probability))

\* the eight directions of _get_spread_candidates, in its order
SpreadDirections ==
    << <<-1, -1>>, <<-1, 0>>, <<-1, 1>>, <<0, -1>>, <<0, 1>>,
       <<1, -1>>, <<1, 0>>, <<1, 1>> >>

\* _get_spread_candidates: the in-bounds neighbours (nx, ny) of (x, y)
GetSpreadCandidates(sim, x, y) ==
    { <<x + SpreadDirections[i][1], y + SpreadDirections[i][2]>> :
        i \in { k \in 1..Len(SpreadDirections) :
                  /\ 0 <= x + SpreadDirections[k][1]
                  /\ x + SpreadDirections[k][1] < sim.width
                  /\ 0 <= y + SpreadDirections[k][2]
                  /\ y + SpreadDirections[k][2] < sim.height } }

\* step(), spread phase: the pairs (burning cell, neighbour that can ignite)
\* for which random.random() is drawn; the grid does not change in this phase
SpreadTrials(sim) ==
    UNION { { <<p, q>> : q \in { c \in GetSpreadCandidates(sim, p[1], p[2]) :
                                    FireCellCanIgnite(sim.grid[c]) } }
            : p \in { b \in DOMAIN sim.grid : sim.grid[b].fire_state = FIRE_BURNING } }

TrialProbability(sim, trial) ==
    FireSpreadProbability(sim, trial[1][1], trial[1][2], trial[2][1], trial[2][2],
                          TERRAIN_TYPES(sim.grid[trial[1]].terrain_type).spread_rate)

\* the draws explored for a step: a trial whose probability is 0 or 1 is
\* decided whatever random.random() returns, and gets the least draw
FireDrawFunctions(sim) ==
    LET trials == SpreadTrials(sim)
        open == { t \in trials : /\ 0 < TrialProbability(sim, t)
                                 /\ TrialProbability(sim, t) < Scale }
    IN  { [t \in trials |-> IF t \in open THEN f[t] ELSE 0] : f \in [open -> Draws] }

\* step(), update phase: step_count += 1 and every cell's update(weather)
UpdateCells(sim) ==
    [sim EXCEPT !.step_count = @ + 1,
                !.grid = [p \in DOMAIN sim.grid |-> FireCellUpdate(sim.grid[p], sim.weather)]]

\* the area of a cell in square metres (cell_area_km2 = 0.000025)
CellAreaM2 == 25

\* _update_statistics; total_burned_area in square metres
UpdateStatistics(sim) ==
    [sim EXCEPT
        !.burning_cells =
            Cardinality({p \in DOMAIN sim.grid : sim.grid[p].fire_state = FIRE_BURNING}),
        !.burned_cells =
            Cardinality({p \in DOMAIN sim.grid : sim.grid[p].fire_state = FIRE_BURNED}),
        !.total_burned_area =
            Cardinality({p \in DOMAIN sim.grid : sim.grid[p].fire_state = FIRE_BURNED})
                * CellAreaM2]

\* step(): the simulation after the step and the dict it returns.  draw gives
\* random.random() for every trial of the spread phase; new_ignitions has one
\* entry for every trial that succeeds
FireSimulationStep(sim, draw) ==
    LET updated == UpdateCells(sim)
        new_ignitions == { t \in DOMAIN draw : draw[t] < TrialProbability(updated, t) }
        ignited ==
            [updated EXCEPT !.grid =
                [p \in DOMAIN updated.grid |->
                    IF \E t \in new_ignitions : t[2] = p
                    THEN FireCellIgnite(updated.grid[p])
                    ELSE updated.grid[p]]]
        after == UpdateStatistics(ignited)
        state_changes ==
            Cardinality({p \in DOMAIN sim.grid :
                            updated.grid[p].fire_state # sim.grid[p].fire_state})
                + Cardinality(new_ignitions)
    IN  [sim |-> after,
         ret |-> [step |-> after.step_count,
                  new_ignitions |-> Cardinality(new_ignitions),
                  state_changes |-> state_changes,
                  burning_cells |-> after.burning_cells,
                  burned_cells |-> after.burned_cells,
                  total_burned_area_km2 |-> after.total_burned_area]]

\* ignite_at
IgniteAtResult(sim, x, y) ==
    IF 0 <= x /\ x < sim.width /\ 0 <= y /\ y < sim.height
    THEN [sim |-> [sim EXCEPT !.grid[<<x, y>>] = FireCellIgnite(@)], ret |-> TRUE]
    ELSE [sim |-> sim, ret |-> FALSE]

\* is_active
IsActive(sim) == sim.burning_cells > 0

\* reset
FireSimulationReset(sim) ==
    [sim EXCEPT !.step_count = 0,
                !.burning_cells = 0,
                !.burned_cells = 0,
                !.total_burned_area = 0,
                !.grid = [p \in DOMAIN sim.grid |->
                            [sim.grid[p] EXCEPT
                                !.fire_state = FIRE_NORMAL,
                                !.burn_time = 0,
                                !.fuel_load =
                                    TERRAIN_TYPES(sim.grid[p].terrain_type).fuel_load]]]

\* ----------------------------------------------- the operations on simulation
\* POST /ignite: ignite_fire; success is what ignite_at returned
IgniteFire(x, y) ==
    /\ simulation # NoSimulation
    /\ \E r \in {IgniteAtResult(simulation, x, y)} :
         /\ simulation' = r.sim
         /\ last' = [op |-> "ignite_fire", arg |-> <<x, y>>,
                     ret |-> IF r.ret
                             THEN [status |-> 200, success |-> TRUE,
                                   statistics |->
                                       [burning_cells |-> r.sim.burning_cells,
                                        burned_cells |-> r.sim.burned_cells,
                                        step |-> r.sim.step_count]]
                             ELSE [status |-> 400, success |-> FALSE]]
    /\ UNCHANGED EngineVars

\* FireSimulation.step, called on the engine
FireStep(limit) ==
    /\ simulation # NoSimulation
    /\ simulation.step_count < limit
    /\ \E draw \in FireDrawFunctions(UpdateCells(simulation)) :
       \E r \in {FireSimulationStep(simulation, draw)} :
         /\ simulation' = r.sim
         /\ last' = [op |-> "step", arg |-> NoValue, ret |-> r.ret]
    /\ UNCHANGED EngineVars

\* one call of step() from the loop of step_simulation: the simulations it can
\* leave, each with the results so far
FireStepOutcomes(st) ==
    UNION { { [sim |-> r.sim, step_results |-> Append(st.step_results, r.ret)]
              : r \in {FireSimulationStep(st.sim, draw)} }
            : draw \in FireDrawFunctions(UpdateCells(st.sim)) }

\* for _ in range(steps): if simulation.is_active(): step, append; else: break
RECURSIVE FireStepLoop(_, _)
FireStepLoop(st, remaining) ==
    IF remaining <= 0 \/ ~IsActive(st.sim) THEN {st}
    ELSE UNION { FireStepLoop(stepped, remaining - 1) : stepped \in FireStepOutcomes(st) }

\* POST /step: step_simulation
FireStepSimulation(steps, limit) ==
    /\ simulation # NoSimulation
    /\ simulation.step_count + steps <= limit
    /\ \E st \in FireStepLoop([sim |-> simulation, step_results |-> <<>>], steps) :
         /\ simulation' = st.sim
         /\ last' = [op |-> "step_simulation", arg |-> steps,
                     ret |-> [success |-> TRUE,
                              steps_executed |-> Len(st.step_results),
                              statistics |->
                                  [burning_cells |-> st.sim.burning_cells,
                                   burned_cells |-> st.sim.burned_cells,
                                   total_burned_area_km2 |-> st.sim.total_burned_area,
                                   step |-> st.sim.step_count,
                                   is_active |-> IsActive(st.sim)],
                              step_results |-> st.step_results]]
    /\ UNCHANGED EngineVars

\* POST /weather: set_weather
SetWeather(weather) ==
    /\ simulation # NoSimulation
    /\ simulation' = [simulation EXCEPT !.weather = weather]
    /\ last' = [op |-> "set_weather", arg |-> NoValue, ret |-> NoValue]
    /\ UNCHANGED EngineVars

\* POST /reset: reset_simulation
FireReset ==
    /\ simulation # NoSimulation
    /\ simulation' = FireSimulationReset(simulation)
    /\ last' = [op |-> "reset", arg |-> NoValue, ret |-> NoValue]
    /\ UNCHANGED EngineVars

\* ------------------------------------------------------------------ SpecFire
\* the colour map a client sends with its bitmap: the colours of Config
ConfigColorMap ==
    [i \in 1..Len(TerrainTypeNames) |->
        <<TERRAIN_TYPES(TerrainTypeNames[i]).color, TerrainTypeNames[i]>>]

\* the bitmaps clients send: grass at (0, 0), a green close to forest at
\* 'wooded' (beside the grass, or diagonally across from it), and water and
\* urban pixels everywhere else
TerrainBitmap(width, height, wooded) ==
    [p \in FirePositions(width, height) |->
        IF p = <<0, 0>> THEN <<124, 252, 0>>
        ELSE IF p = wooded THEN <<10, 90, 5>>
        ELSE IF (p[1] + p[2]) % 2 = 1 THEN <<0, 100, 200>>
        ELSE <<128, 128, 128>>]

TerrainDataInputs(width, height) ==
    { Some([bitmap |-> TerrainBitmap(width, height, wooded),
            color_map |-> ConfigColorMap]) : wooded \in {<<1, 0>>, <<1, 1>>} }

\* the coordinates clients send: every cell, and one coordinate off each edge
FireIgniteInputs(sim) ==
    FirePositions(sim.width, sim.height)
        \cup {<<-1, 0>>, <<sim.width, sim.height - 1>>, <<0, -1>>,
              <<sim.width - 1, sim.height>>}

\* the weathers clients send: the defaults, heavy rain, a hot dry gale
FireWeathers ==
    {DefaultWeather, WeatherConditions(5, 0, 50, 25, 10),
     WeatherConditions(40, 90, 0, 70, 0)}

InitFire ==
    /\ grid_size = 0
    /\ grid = <<>>
    /\ tick_count = 0
    /\ conditions = DefaultConditions
    /\ processed = <<>>
    /\ handlers = [t \in Threads |-> IdleHandler]
    /\ \E terrain_data \in TerrainDataInputs(FireWidth, FireHeight) :
         simulation = CreateSimulation(FireWidth, FireHeight, terrain_data)
    /\ last = [op |-> "create_simulation", arg |-> NoValue, ret |-> NoValue]

NextFire ==
    \/ \E c \in FireIgniteInputs(simulation) : IgniteFire(c[1], c[2])
    \/ FireStep(MaxFireSteps)
    \/ \E steps \in StepCounts : FireStepSimulation(steps, MaxFireSteps)
    \/ \E weather \in FireWeathers : SetWeather(weather)
    \/ FireReset

SpecFire == InitFire /\ [][NextFire]_vars

\* ===================================================================== claims
Chebyshev(p, q) == Max(Abs(p[1] - q[1]), Abs(p[2] - q[2]))

IsFlammable(cell) == TerrainParams(cell.terrain_type).is_flammable

\* every visiting order of a sequence of cells
Orders(order) ==
    { [i \in 1..Len(order) |-> order[f[i]]] : f \in Permutations(1..Len(order)) }

\* a cell Unburned in g and Burning in g2 touches a cell Burning in g
SingleHopFrom(g, g2) ==
    \A p \in DOMAIN g :
        (g[p].burn_state = UNBURNED /\ g2[p].burn_state = BURNING)
        => \E q \in DOMAIN g : g[q].burn_state = BURNING /\ Chebyshev(p, q) = 1

\* C1: single-hop spread.  Every step() transition, and the tick computed from
\* any reachable grid under any visiting order of its burning cells and any
\* draws, sets alight only cells at Chebyshev distance exactly 1 from a cell
\* that was Burning before the tick.
C1_SingleHop ==
    /\ [][last'.op = "step" => SingleHopFrom(grid, grid')]_vars
    /\ [](grid # <<>> =>
            \A order \in Orders(BurningCells(grid, grid_size)) :
            \A draw \in DrawFunctions(grid, conditions, grid_size) :
                SingleHopFrom(grid,
                    TickResult(grid, conditions, grid_size, order, draw).grid))

\* a step has set a neighbour of the fire alight, while a flammable cell with
\* fuel next to that neighbour, two cells from the cell the step processed and
\* next to no cell it processed, stayed Unburned
C1_Witness ==
    /\ grid # <<>>
    /\ last.op = "step"
    /\ last.ret.newly_ignited >= 1
    /\ \E p \in DOMAIN grid :
          /\ IsFlammable(grid[p]) /\ grid[p].burn_state = UNBURNED
          /\ grid[p].fuel_load > 0
          /\ \E q \in DOMAIN grid : processed[q] >= 1 /\ Chebyshev(p, q) = 2
          /\ \A q \in DOMAIN grid : processed[q] >= 1 => Chebyshev(p, q) >= 2
          /\ \E r \in DOMAIN grid :
                /\ grid[r].burn_state = BURNING /\ processed[r] = 0
                /\ Chebyshev(p, r) = 1

\* C2: order independence (the claim as stated).  For every reachable grid and
\* every assignment of draws to the (source, neighbour) trials of a tick, every
\* visiting order of the burning cells yields the grid that row-major order
\* yields.
C2_OrderIndependent ==
    grid # <<>> =>
        \A draw \in DrawFunctions(grid, conditions, grid_size) :
        \A order \in Orders(BurningCells(grid, grid_size)) :
            TickResult(grid, conditions, grid_size, order, draw).grid
            = TickResult(grid, conditions, grid_size,
                         BurningCells(grid, grid_size), draw).grid

\* a burning source of the given intensity standing in for the cell at q
SourceAt(cell, intensity) ==
    [cell EXCEPT !.burn_state = BURNING, !.burn_intensity = intensity]

\* C3: non-flammable terrain never burns.  In every reachable state a cell of
\* non-flammable terrain (water, beach) is Unburned, no offered intensity can
\* ignite it, and the spread probability into it from any neighbour, at any
\* offered source intensity, is 0.
C3_NonFlammableNeverBurns ==
    grid # <<>> =>
        \A p \in DOMAIN grid :
            ~IsFlammable(grid[p]) =>
                /\ grid[p].terrain_type \in {"water", "beach"}
                /\ grid[p].burn_state = UNBURNED
                /\ \A i \in Intensities : ~CanIgnite(grid[p], i)
                /\ \A q \in DOMAIN grid : \A i \in Intensities :
                      Chebyshev(p, q) = 1 =>
                        CalculateSpreadProbability(conditions, SourceAt(grid[q], i),
                            grid[p], q[1], q[2], p[1], p[2]) = 0

\* after a reset (the beach cell holds fuel again) a step has processed a fire
\* burning next to the beach cell, and an ignition of a cell has been refused
C3_Witness ==
    /\ grid # <<>>
    /\ last.op = "step"
    /\ last.ret.burning_cells >= 1
    /\ \E p \in DOMAIN grid :
          /\ grid[p].terrain_type = "beach" /\ grid[p].fuel_load > 0
          /\ grid[p].burn_state = UNBURNED
          /\ \E q \in DOMAIN grid :
                Chebyshev(p, q) = 1 /\ grid[q].burn_state = BURNING /\ processed[q] >= 1

\* the ignition request names no cell, or a cell that must be refused
MustReject(g, n, row, col) ==
    \/ ~IsValidPosition(n, row, col)
    \/ ~IsFlammable(g[<<row, col>>])
    \/ g[<<row, col>>].burn_state # UNBURNED
    \/ g[<<row, col>>].fuel_load <= 0

\* C4: a refused ignition changes nothing.  ignite_cell on a coordinate out of
\* bounds, on non-flammable terrain, on a cell not Unburned or on a cell
\* without fuel returns false and leaves every cell, tick_count and the
\* environmental conditions as they were.
C4_RejectedIgnitionNoChange ==
    grid # <<>> =>
        \A a \in IgniteInputs(grid_size) :
            MustReject(grid, grid_size, a[1][1], a[1][2]) =>
                /\ ENABLED IgniteCell(a[1][1], a[1][2], a[2])
                /\ ~ENABLED (/\ IgniteCell(a[1][1], a[1][2], a[2])
                             /\ ~(/\ last'.ret = FALSE
                                  /\ grid' = grid
                                  /\ tick_count' = tick_count
                                  /\ conditions' = conditions))

\* an ignition was refused on a grid where no cell can be ignited any more:
\* every cell is non-flammable, Burning or Burned
C4_Witness ==
    /\ grid # <<>>
    /\ last.op = "ignite"
    /\ last.ret = FALSE
    /\ \A p \in DOMAIN grid : ~IsFlammable(grid[p]) \/ grid[p].burn_state # UNBURNED
    /\ \E p \in DOMAIN grid : grid[p].burn_state = BURNING
    /\ \E p \in DOMAIN grid : grid[p].burn_state = BURNED

\* what the call a = <<<<row, col>>, intensity>> must do to a cell that can burn
IgnitionOutcome(a) ==
    LET cell == grid[a[1]]
        threshold == TerrainParams(cell.terrain_type).ignition_threshold
    IN  IF a[2] * Scale > cell.moisture * threshold
        THEN /\ last'.ret = TRUE
             /\ grid'[a[1]] = [cell EXCEPT !.burn_state = BURNING,
                                           !.burn_intensity = Min(Scale, a[2]),
                                           !.burn_duration = 1]
             /\ \A q \in DOMAIN grid : q # a[1] => grid'[q] = grid[q]
        ELSE /\ last'.ret = FALSE
             /\ grid' = grid

\* C5: the ignition threshold.  For an in-bounds, flammable, Unburned cell with
\* fuel, ignite_cell succeeds exactly when intensity > moisture *
\* ignition_threshold (equality fails); on success it returns true, the cell is
\* Burning with burn_intensity min(1.0, intensity) and burn_duration 1, and no
\* other cell changes; otherwise it returns false and the grid is unchanged.
C5_IgnitionThreshold ==
    grid # <<>> =>
        \A a \in IgniteInputs(grid_size) :
            ~MustReject(grid, grid_size, a[1][1], a[1][2]) =>
                /\ ENABLED IgniteCell(a[1][1], a[1][2], a[2])
                /\ ~ENABLED (IgniteCell(a[1][1], a[1][2], a[2]) /\ ~IgnitionOutcome(a))

\* an ignition has succeeded on a grass cell of default moisture 0.5, which now
\* burns at intensity 1.0 with burn_duration 1, the other grass cell untouched
C5_Witness ==
    /\ grid # <<>>
    /\ last.op = "ignite"
    /\ last.ret = TRUE
    /\ \E p \in DOMAIN grid :
          /\ grid[p].terrain_type = "grass" /\ grid[p].moisture = 500
          /\ grid[p].burn_state = BURNING /\ grid[p].burn_intensity = Scale
          /\ grid[p].burn_duration = 1
    /\ \E p \in DOMAIN grid :
          grid[p].terrain_type = "grass" /\ grid[p].burn_state = UNBURNED

\* C6: the burn-out rule.  In every step() each cell of the burning snapshot
\* ends the tick Burned, with intensity 0 and the ambient temperature, exactly
\* when its updated burn_duration has reached its terrain's max_burn_duration
\* or its updated fuel_load is at most 0.1; otherwise it is still Burning at
\* its former intensity.
C6_BurnOutRule ==
    [][last'.op = "step" =>
        \A p \in DOMAIN grid :
            grid[p].burn_state = BURNING =>
                IF grid'[p].burn_duration
                       >= TerrainParams(grid[p].terrain_type).max_burn_duration
                   \/ grid'[p].fuel_load <= BurnoutFuel
                THEN /\ grid'[p].burn_state = BURNED
                     /\ grid'[p].burn_intensity = 0
                     /\ grid'[p].temperature = conditions'.temperature * Scale
                ELSE /\ grid'[p].burn_state = BURNING
                     /\ grid'[p].burn_intensity = grid[p].burn_intensity]_vars

\* a step under a changed ambient temperature has burned one cell out, cooled
\* to that temperature, and left another cell burning that it also processed
C6_Witness ==
    /\ grid # <<>>
    /\ last.op = "step"
    /\ conditions.temperature # DefaultConditions.temperature
    /\ \E p \in DOMAIN grid :
          /\ grid[p].burn_state = BURNED
          /\ grid[p].burn_duration
                = TerrainParams(grid[p].terrain_type).max_burn_duration
          /\ grid[p].temperature = conditions.temperature * Scale
    /\ \E p \in DOMAIN grid :
          grid[p].burn_state = BURNING /\ processed[p] >= 1

\* C7: burn duration counts ticks (the claim as stated).  A Burning cell's
\* burn_duration equals the number of step() calls that have processed it
\* since it caught fire, and a cell that burns out with more than 0.1 fuel
\* left has been processed by exactly max_burn_duration step() calls.
C7_DurationCountsTicks ==
    grid # <<>> =>
        \A p \in DOMAIN grid :
            /\ grid[p].burn_state = BURNING
                  => grid[p].burn_duration = processed[p]
            /\ (grid[p].burn_state = BURNED /\ grid[p].fuel_load > BurnoutFuel)
                  => processed[p] = TerrainParams(grid[p].terrain_type).max_burn_duration

\* C8: a single cell burns out within max_burn_duration ticks and stays burned.
\* On the 1x1 grids, a cell still Burning has been processed by fewer than
\* max_burn_duration step() calls since it caught fire (so after that many
\* calls it no longer burns), a cell that is not Unburned is never made
\* Unburned by a step, and a Burned cell has intensity 0 and stays Burned with
\* intensity 0 under every further step.
C8_SingleCellBurnsOut ==
    /\ [](grid # <<>> =>
            \A p \in DOMAIN grid :
                /\ grid[p].burn_state = BURNING =>
                      processed[p] < TerrainParams(grid[p].terrain_type).max_burn_duration
                /\ grid[p].burn_state = BURNED => grid[p].burn_intensity = 0)
    /\ [][last'.op = "step" =>
            \A p \in DOMAIN grid :
                /\ grid[p].burn_state # UNBURNED => grid'[p].burn_state # UNBURNED
                /\ grid[p].burn_state = BURNED =>
                      grid'[p].burn_state = BURNED /\ grid'[p].burn_intensity = 0]_vars

\* the forest cell, ignited at tick 0, is Burned with intensity 0 after 8 ticks
C8_Witness ==
    /\ grid # <<>>
    /\ grid_size = 1
    /\ grid[<<0, 0>>].terrain_type = "forest"
    /\ grid[<<0, 0>>].burn_state = BURNED
    /\ grid[<<0, 0>>].burn_intensity = 0
    /\ tick_count = 8
    /\ processed[<<0, 0>>] = tick_count - 1
    /\ last.op = "step"

\* C9: in every reachable state a cell that is not Burning has burn_intensity 0.
C9_IntensityOnlyWhileBurning ==
    grid # <<>> =>
        \A p \in DOMAIN grid :
            grid[p].burn_state # BURNING => grid[p].burn_intensity = 0

\* a step has burned a cell out next to a cell that is still burning
C9_Witness ==
    /\ grid # <<>>
    /\ last.op = "step"
    /\ \E p \in DOMAIN grid : \E q \in DOMAIN grid :
          /\ grid[p].burn_state = BURNED /\ grid[p].burn_intensity = 0
          /\ grid[q].burn_state = BURNING /\ grid[q].burn_intensity > 0
          /\ Chebyshev(p, q) = 1

\* C10: monotonic fuel.  Except by reset (and the initialization that creates
\* the grid), no operation raises any cell's fuel_load: a step lowers the fuel
\* of each cell of its burning snapshot by fuel_consumption_rate *
\* burn_intensity, floored at 0, and leaves every other cell's fuel alone;
\* ignite_cell and environmental updates change no fuel.
C10_MonotonicFuel ==
    [][(grid # <<>> /\ last'.op # "reset") =>
        \A p \in DOMAIN grid :
            LET used == grid[p].fuel_load - grid'[p].fuel_load
                due == TerrainParams(grid[p].terrain_type).fuel_consumption_rate
                       * grid[p].burn_intensity
            IN  /\ grid'[p].fuel_load <= grid[p].fuel_load
                /\ grid'[p].fuel_load >= 0
                /\ IF last'.op = "step" /\ grid[p].burn_state = BURNING
                   THEN /\ used * Scale <= due
                        /\ grid'[p].fuel_load = 0 \/ (used + 1) * Scale > due
                   ELSE used = 0]_vars

\* a step has consumed fuel of a cell that still burns, while an Unburned
\* flammable cell keeps its full fuel
C10_Witness ==
    /\ grid # <<>>
    /\ last.op = "step"
    /\ \E p \in DOMAIN grid :
          /\ grid[p].burn_state = BURNING /\ processed[p] >= 1
          /\ grid[p].fuel_load < Scale /\ grid[p].fuel_load > 0
    /\ \E p \in DOMAIN grid :
          /\ IsFlammable(grid[p]) /\ grid[p].burn_state = UNBURNED
          /\ grid[p].fuel_load = Scale


\* the cells of g in the given burn state
CellsIn(g, state) == {p \in DOMAIN g : g[p].burn_state = state}

\* C11: whenever the grid exists (after initialization and after every tick,
\* ignition and reset) the statistics satisfy unburned + burning + burned =
\* grid_size * grid_size = total_cells, each count is the number of cells in
\* that burn state, and the statistics a tick returns satisfy the same sum.
C11_Conservation ==
    grid # <<>> =>
      LET stats == CalculateStatistics(grid, grid_size)
      IN  /\ stats.unburned + stats.burning + stats.burned = grid_size * grid_size
          /\ stats.total_cells = grid_size * grid_size
          /\ stats.unburned = Cardinality(CellsIn(grid, UNBURNED))
          /\ stats.burning = Cardinality(CellsIn(grid, BURNING))
          /\ stats.burned = Cardinality(CellsIn(grid, BURNED))
          /\ last.op = "step" =>
                last.ret.statistics.unburned + last.ret.statistics.burning
                  + last.ret.statistics.burned = last.ret.statistics.total_cells

\* a tick has run and left cells in all three burn states
C11_Witness ==
    /\ grid # <<>>
    /\ last.op = "step"
    /\ CellsIn(grid, UNBURNED) # {}
    /\ CellsIn(grid, BURNING) # {}
    /\ CellsIn(grid, BURNED) # {}

\* C12: every step() raises tick_count by exactly 1 and returns a summary whose
\* tick is the new tick_count, whose burning_cells is the number of cells that
\* were Burning before the update, whose statistics count the cells of the grid
\* after the update, and whose is_active is true exactly when that pre-update
\* count is positive; tick_count never decreases except by reset.
C12_StepSummary ==
    [][ /\ last'.op = "step" =>
             /\ tick_count' = tick_count + 1
             /\ last'.ret.tick = tick_count'
             /\ last'.ret.burning_cells = Cardinality(CellsIn(grid, BURNING))
             /\ last'.ret.statistics.unburned = Cardinality(CellsIn(grid', UNBURNED))
             /\ last'.ret.statistics.burning = Cardinality(CellsIn(grid', BURNING))
             /\ last'.ret.statistics.burned = Cardinality(CellsIn(grid', BURNED))
             /\ last'.ret.is_active <=> (Cardinality(CellsIn(grid, BURNING)) > 0)
        /\ (tick_count' >= tick_count \/ last'.op = "reset") ]_vars

\* a tick that still had a burning cell to process and left none burning
C12_Witness ==
    /\ last.op = "step"
    /\ last.ret.is_active
    /\ last.ret.burning_cells > 0
    /\ last.ret.statistics.burning = 0

\* C13: a neighbour ignited by spread during a tick ends the tick Burning with
\* burn_duration 1 and burn_intensity min(1.0, 0.8 * intensity of a burning
\* neighbour of the snapshot), its fuel_load, moisture and temperature as
\* before the tick; it is not processed in that tick (the tick returns the
\* number of such cells as newly_ignited) and is first aged by the next tick.
C13_SpreadIgnition ==
    [][ last'.op = "step" =>
          LET ignited == {p \in DOMAIN grid : /\ grid[p].burn_state = UNBURNED
                                              /\ grid'[p].burn_state # UNBURNED}
          IN  /\ \A p \in ignited :
                   /\ grid'[p].burn_state = BURNING
                   /\ grid'[p].burn_duration = 1
                   /\ \E q \in CellsIn(grid, BURNING) :
                        /\ Chebyshev(p, q) = 1
                        /\ grid'[p].burn_intensity
                             = Min(Scale, FMul(grid[q].burn_intensity, SpreadAttenuation))
                   /\ grid'[p].fuel_load = grid[p].fuel_load
                   /\ grid'[p].moisture = grid[p].moisture
                   /\ grid'[p].temperature = grid[p].temperature
                   /\ processed'[p] = 0
              /\ last'.ret.newly_ignited = Cardinality(ignited)
              /\ \A p \in CellsIn(grid, BURNING) :
                   processed[p] = 0 => /\ processed'[p] = 1
                                       /\ grid'[p].burn_duration = grid[p].burn_duration + 1
                                       /\ grid'[p].fuel_load <= grid[p].fuel_load ]_vars

\* a tick has just ignited a neighbour of a source burning at full intensity
C13_Witness ==
    /\ last.op = "step"
    /\ last.ret.newly_ignited > 0
    /\ \E p \in DOMAIN grid :
         /\ grid[p].burn_state = BURNING
         /\ processed[p] = 0
         /\ grid[p].burn_duration = 1
         /\ grid[p].burn_intensity = 800
         /\ grid[p].fuel_load = Scale

\* C14: step() changes only the cells of its pre-tick burning snapshot, each
\* given the fuel/temperature/moisture/duration update (and burn-out check)
\* exactly once, and Unburned neighbours of those cells, of which only the burn
\* state, intensity and duration change; every other cell, all terrain kinds
\* and the conditions are unchanged; with no cell Burning only tick_count
\* changes, by +1, and the summary has newly_ignited 0 and is_active false.
C14_StepFrame ==
    [][ last'.op = "step" =>
          /\ conditions' = conditions
          /\ grid_size' = grid_size
          /\ \A p \in DOMAIN grid :
               /\ grid'[p].terrain_type = grid[p].terrain_type
               /\ IF grid[p].burn_state = BURNING
                  THEN grid'[p] = BurnOut(ConsumeCell(grid[p]), conditions)
                  ELSE grid'[p] # grid[p] =>
                         /\ grid[p].burn_state = UNBURNED
                         /\ grid'[p].burn_state = BURNING
                         /\ \E q \in CellsIn(grid, BURNING) : Chebyshev(p, q) = 1
                         /\ grid'[p] = [grid[p] EXCEPT
                                          !.burn_state = grid'[p].burn_state,
                                          !.burn_intensity = grid'[p].burn_intensity,
                                          !.burn_duration = grid'[p].burn_duration]
          /\ CellsIn(grid, BURNING) = {} =>
               /\ grid' = grid
               /\ tick_count' = tick_count + 1
               /\ last'.ret.newly_ignited = 0
               /\ ~last'.ret.is_active ]_vars

\* a tick processed a burning cell, ignited a neighbour and left a flammable
\* cell with fuel untouched
C14_Witness ==
    /\ last.op = "step"
    /\ last.ret.burning_cells > 0
    /\ last.ret.newly_ignited > 0
    /\ \E p \in DOMAIN grid : /\ grid[p].burn_state = UNBURNED
                              /\ IsFlammable(grid[p])
                              /\ grid[p].fuel_load = Scale


\* C15: reset(), in any reachable state, sets tick_count to 0 and leaves every
\* cell Unburned with burn_intensity 0, burn_duration 0 and the current ambient
\* temperature, so that the statistics report unburned = grid_size^2, burning
\* = 0, burned = 0; terrain kinds and conditions are untouched; and after it
\* every flammable cell, previously Burned or not, accepts an ignition at
\* intensity 1.0.
C15_Reset ==
    /\ [][ last'.op = "reset" =>
             /\ tick_count' = 0
             /\ conditions' = conditions
             /\ grid_size' = grid_size
             /\ \A p \in DOMAIN grid :
                  /\ grid'[p].terrain_type = grid[p].terrain_type
                  /\ grid'[p].burn_state = UNBURNED
                  /\ grid'[p].burn_intensity = 0
                  /\ grid'[p].burn_duration = 0
                  /\ grid'[p].temperature = conditions.temperature * Scale
             /\ CalculateStatistics(grid', grid_size).unburned = grid_size * grid_size
             /\ CalculateStatistics(grid', grid_size).burning = 0
             /\ CalculateStatistics(grid', grid_size).burned = 0 ]_vars
    /\ [](last.op = "reset" =>
            \A p \in DOMAIN grid :
               IsFlammable(grid[p]) =>
                  ENABLED (/\ IgniteCell(p[1], p[2], Scale)
                           /\ last'.ret = TRUE
                           /\ grid'[p].burn_state = BURNING))

\* reset has run after the ambient temperature was changed and has brought
\* every cell to the new ambient temperature
C15_Witness ==
    /\ last.op = "reset"
    /\ tick_count = 0
    /\ conditions.temperature = 40
    /\ \A p \in DOMAIN grid : grid[p].temperature = 40 * Scale

\* C16: in every reachable state, also after reset(), every cell of
\* non-flammable terrain has fuel_load 0, and right after initialize or reset
\* every flammable cell has fuel_load 1.0.
C16_NonFlammableNoFuel ==
    grid # <<>> =>
      \A p \in DOMAIN grid :
         /\ ~IsFlammable(grid[p]) => grid[p].fuel_load = 0
         /\ (IsFlammable(grid[p]) /\ last.op \in {"initialize", "reset"})
               => grid[p].fuel_load = Scale

\* C17: after reset() the moisture of every cell is the default that
\* initialization gives its terrain kind when the caller supplies no override.
C17_ResetMoistureAsInitialized ==
    (grid # <<>> /\ last.op = "reset") =>
      \A p \in DOMAIN grid :
         grid[p].moisture
           = InitialCell(TerrainData(grid[p].terrain_type, None), conditions).moisture


\* thread t is inside a tick of which some but not all burning cells have been updated
PartlyUpdated(t) ==
    /\ handlers[t].pc = "update"
    /\ 1 < handlers[t].i
    /\ handlers[t].i <= Len(handlers[t].burning_cells)

\* C18: a status request never returns a mid-tick grid: when it reads the grid
\* no step request has updated only part of the burning cells of its tick.
C18_ReadersSeeSettledGrid ==
    last.op = "status" => \A t \in Threads : ~PartlyUpdated(t)

\* C19: ticks of one simulation are serialized behind a single writer: a step
\* request begins its tick only when no other request is inside a tick, and no
\* ignition or reset changes the grid while a request is inside a tick.
C19_TicksSerialized ==
    [][ /\ \A t \in Threads :
             (handlers[t].pc = "idle" /\ handlers'[t].pc = "update")
                => \A u \in Threads \ {t} : handlers[u].pc = "idle"
        /\ (last'.op \in {"ignite", "reset"} /\ grid' # grid)
                => \A t \in Threads : handlers[t].pc = "idle" ]_vars

\* C20: the statistics read changes no cell, not tick_count and not the
\* conditions, and a second read with no operation in between returns what the
\* first returned.
C20_StatisticsPureRead ==
    /\ [][ last'.op = "status" =>
             /\ grid' = grid
             /\ tick_count' = tick_count
             /\ conditions' = conditions
             /\ grid_size' = grid_size
             /\ last.op = "status" => last'.ret.statistics = last.ret.statistics ]_vars
    /\ [](last.op = "status" =>
            last.ret.statistics = CalculateStatistics(grid, grid_size))

\* the statistics of a grid with a burning and a burned cell have been read
C20_Witness ==
    /\ last.op = "status"
    /\ last.ret.statistics.burning > 0
    /\ last.ret.statistics.burned > 0
    /\ last.ret.statistics.avg_intensity > 0


\* city-block distance of two positions
Manhattan(p, q) == Abs(p[1] - q[1]) + Abs(p[2] - q[2])

\* the positions a sequence holds
Range(seq) == {seq[i] : i \in 1..Len(seq)}

\* C25: for every in-bounds (row, col) the neighbour enumeration returns
\* exactly the in-bounds cells among the 8 Moore offsets (the default) or the 4
\* von Neumann offsets: never the cell itself, no duplicates, nothing outside
\* the grid, no wraparound; a corner cell has 3 Moore neighbours, an edge cell
\* 5, an interior cell 8.
C25_NeighborEnumeration ==
    \A p \in Positions(grid_size) :
       LET moore == NeighborsOf(moore_neighbors, grid_size, p[1], p[2])
           neumann == NeighborsOf(von_neumann_neighbors, grid_size, p[1], p[2])
           on_edge(x) == x = 0 \/ x = grid_size - 1
       IN  /\ GetNeighbors(grid_size, p[1], p[2]) = moore
           /\ Range(moore) = {q \in Positions(grid_size) : Chebyshev(p, q) = 1}
           /\ Range(neumann) = {q \in Positions(grid_size) : Manhattan(p, q) = 1}
           /\ Len(moore) = Cardinality(Range(moore))
           /\ Len(neumann) = Cardinality(Range(neumann))
           /\ grid_size >= 3 =>
                Len(moore) = IF on_edge(p[1]) /\ on_edge(p[2]) THEN 3
                             ELSE IF on_edge(p[1]) \/ on_edge(p[2]) THEN 5
                             ELSE 8

\* a tick has spread fire on a grid that has corner, edge and interior cells
C25_Witness ==
    /\ grid # <<>>
    /\ grid_size >= 3
    /\ last.op = "step"
    /\ last.ret.newly_ignited > 0
    /\ Len(GetNeighbors(grid_size, 1, 1)) = 8
    /\ Len(GetNeighbors(grid_size, 0, 0)) = 3


\* C29: in every reachable state every cell has fuel_load, moisture and
\* burn_intensity in [0, 1], burn_duration >= 0 and a temperature of at most
\* max(1000, ambient): the fuel and moisture reductions of a tick are floored
\* at 0 and the temperature rise is capped at 1000.
C29_CellRanges ==
    grid # <<>> =>
      \A p \in DOMAIN grid :
         /\ 0 <= grid[p].fuel_load /\ grid[p].fuel_load <= Scale
         /\ 0 <= grid[p].moisture /\ grid[p].moisture <= Scale
         /\ 0 <= grid[p].burn_intensity /\ grid[p].burn_intensity <= Scale
         /\ grid[p].burn_duration >= 0
         /\ grid[p].temperature <= Max(MaxTemperature, conditions.temperature) * Scale

\* a tick has taken the moisture of a cell down to the floor and part of its fuel
C29_Witness ==
    /\ grid # <<>>
    /\ \E p \in DOMAIN grid :
         /\ grid[p].burn_state \in {BURNING, BURNED}
         /\ processed[p] >= 2
         /\ grid[p].moisture = 0
         /\ grid[p].fuel_load < Scale

\* C30: the terrain kind of every cell is fixed at initialization: no ignition,
\* tick, change of conditions or reset changes the terrain_type of any cell.
C30_TerrainFixed ==
    [][ grid # <<>> =>
          /\ DOMAIN grid' = DOMAIN grid
          /\ \A p \in DOMAIN grid : grid'[p].terrain_type = grid[p].terrain_type ]_vars

\* the forest cell has been through a reset (its moisture is the reset value),
\* the conditions have been changed, and a cell ignited since has burned out
C30_Witness ==
    /\ grid # <<>>
    /\ <<0, 2>> \in DOMAIN grid
    /\ grid[<<0, 2>>].terrain_type = "forest"
    /\ grid[<<0, 2>>].moisture = 500
    /\ conditions.temperature = 40
    /\ \E p \in DOMAIN grid : grid[p].burn_state = BURNED /\ grid[p].terrain_type = "grass"

\* the fields of EnvironmentalConditions
ConditionFields ==
    {"temperature", "humidity", "wind_speed", "wind_direction",
     "rain_probability", "time_of_day"}

\* what the call with this payload must do to one field
FieldOutcome(payload, f) ==
    IF ~Has(payload[f]) THEN conditions'[f] = conditions[f]
    ELSE IF f = "wind_direction" THEN conditions'[f] \in WindDirection
    ELSE conditions'[f] = Get(payload[f])

\* C21: set_environmental_conditions is a partial update.  Each field present
\* in the payload takes the payload's value (wind_direction the direction its
\* name maps to), every absent field keeps its prior value, and no cell and
\* not tick_count is modified.
C21_PartialUpdate ==
    Registered =>
        \A payload \in WeatherPayloads :
            /\ ENABLED SetEnvironmentalConditions(payload)
            /\ ~ENABLED (/\ SetEnvironmentalConditions(payload)
                         /\ ~(/\ \A f \in ConditionFields : FieldOutcome(payload, f)
                              /\ grid' = grid
                              /\ tick_count' = tick_count))

\* while a cell burns, payloads naming different fields have arrived one after
\* another: temperature and humidity, then the wind speed, then the wind
\* direction; rain_probability and time_of_day, named by none, are as constructed
C21_Witness ==
    /\ Registered
    /\ last.op = "set_environmental_conditions"
    /\ conditions.temperature = 40
    /\ conditions.humidity = 30
    /\ conditions.wind_speed = 100
    /\ conditions.wind_direction = "SOUTHWEST"
    /\ conditions.rain_probability = DefaultConditions.rain_probability
    /\ conditions.time_of_day = DefaultConditions.time_of_day
    /\ tick_count > 0
    /\ \E p \in DOMAIN grid : grid[p].burn_state = BURNING

\* the name of each member of the WindDirection enum, letter by letter
EnumName(d) ==
    CASE d = "NORTH"     -> <<"N", "O", "R", "T", "H">>
      [] d = "NORTHEAST" -> <<"N", "O", "R", "T", "H", "E", "A", "S", "T">>
      [] d = "EAST"      -> <<"E", "A", "S", "T">>
      [] d = "SOUTHEAST" -> <<"S", "O", "U", "T", "H", "E", "A", "S", "T">>
      [] d = "SOUTH"     -> <<"S", "O", "U", "T", "H">>
      [] d = "SOUTHWEST" -> <<"S", "O", "U", "T", "H", "W", "E", "S", "T">>
      [] d = "WEST"      -> <<"W", "E", "S", "T">>
      [] d = "NORTHWEST" -> <<"N", "O", "R", "T", "H", "W", "E", "S", "T">>

\* the capital and the small form of the letters compass names are made of
LetterForms ==
    {<<"A", "a">>, <<"E", "e">>, <<"H", "h">>, <<"N", "n">>, <<"O", "o">>,
     <<"R", "r">>, <<"S", "s">>, <<"T", "t">>, <<"U", "u">>, <<"W", "w">>}

SameLetter(x, y) == x = y \/ <<x, y>> \in LetterForms \/ <<y, x>> \in LetterForms

\* name spells the direction d, in whatever mix of capitals and small letters
Names(name, d) ==
    /\ Len(name) = Len(EnumName(d))
    /\ \A i \in 1..Len(name) : SameLetter(name[i], EnumName(d)[i])

\* C22: a wind_direction given as a compass name is matched without regard to
\* case to one of the 8 directions ('NorthEast' gives NORTHEAST), and a name
\* that is none of the 8 sets the wind direction to North, whatever it was
\* before; the call never fails.
C22_WindDirectionByName ==
    Registered =>
        \A name \in WindNames :
            LET payload == [EmptyPayload EXCEPT !.wind_direction = Some(name)]
                expected == IF \E d \in WindDirection : Names(name, d)
                            THEN CHOOSE d \in WindDirection : Names(name, d)
                            ELSE "NORTH"
            IN  /\ ENABLED SetEnvironmentalConditions(payload)
                /\ ~ENABLED (/\ SetEnvironmentalConditions(payload)
                             /\ conditions'.wind_direction # expected)

\* the wind blows to the north-east, which only the payload spelling the name
\* 'NorthEast' sets, and a cell burns
C22_Witness ==
    /\ Registered
    /\ last.op = "set_environmental_conditions"
    /\ conditions.wind_direction = "NORTHEAST"
    /\ \E p \in DOMAIN grid : grid[p].burn_state = BURNING

\* the classifications initialize is examined on: those Spec hands to it, and
\* a grid of every terrain kind of the parameter table and of an unknown kind
InitializeInputs(n) ==
    Layouts(n) \cup {UniformLayout(n, k) : k \in KnownKinds \cup {"rock"}}

\* the default moisture table, by terrain kind
DefaultMoistureTable ==
    [k \in {"water", "urban", "bare_ground", "desert", "agriculture", "grass",
            "forest", "shrub"} |->
        CASE k = "water" -> Scale
          [] k \in {"urban", "bare_ground", "desert"} -> 200
          [] k \in {"agriculture", "grass"} -> 500
          [] k \in {"forest", "shrub"} -> 600]

\* the cell initialize must build from one entry of the classification
InitializedAs(cell, terrain_data) ==
    /\ cell.terrain_type = terrain_data.terrain_type
    /\ cell.burn_state = UNBURNED
    /\ cell.burn_intensity = 0
    /\ cell.burn_duration = 0
    /\ cell.fuel_load = IF IsFlammable(cell) THEN Scale ELSE 0
    /\ IF Has(terrain_data.moisture_retention)
       THEN cell.moisture = Get(terrain_data.moisture_retention)
       ELSE terrain_data.terrain_type \in DOMAIN DefaultMoistureTable =>
                cell.moisture = DefaultMoistureTable[terrain_data.terrain_type]

\* C23: initialize produces an N x N grid in which every cell has the supplied
\* terrain kind, burn_state Unburned, burn_intensity 0, burn_duration 0,
\* fuel_load 1.0 if its terrain is flammable and 0.0 otherwise, and the
\* moisture of the default table (water 1.0; urban, bare_ground, desert 0.2;
\* agriculture, grass 0.5; forest, shrub 0.6) unless the caller supplies a
\* value for the cell, which is then used.
C23_InitializeResult ==
    grid = <<>> =>
        \A terrain_grid \in InitializeInputs(grid_size) :
            /\ ENABLED InitializeFromTerrainGrid(terrain_grid)
            /\ ~ENABLED (/\ InitializeFromTerrainGrid(terrain_grid)
                         /\ ~(/\ DOMAIN grid' = Positions(grid_size)
                              /\ \A p \in Positions(grid_size) :
                                    InitializedAs(grid'[p], terrain_grid[p])))

\* initialize has just built the 3 x 3 grid of the strip classification: grass
\* of default moisture 0.5 with fuel 1.0, a forest cell with the moisture 0.25
\* its caller supplied, and beach and water cells without fuel
C23_Witness ==
    /\ last.op = "initialize"
    /\ DOMAIN grid = Positions(GridSize)
    /\ grid[<<0, 0>>].terrain_type = "grass" /\ grid[<<0, 0>>].moisture = 500
    /\ grid[<<0, 0>>].fuel_load = Scale
    /\ grid[<<0, 2>>].terrain_type = "forest" /\ grid[<<0, 2>>].moisture = 250
    /\ grid[<<1, 1>>].terrain_type = "beach" /\ grid[<<1, 1>>].fuel_load = 0
    /\ grid[<<2, 2>>].terrain_type = "water" /\ grid[<<2, 2>>].moisture = Scale
    /\ \A p \in DOMAIN grid : grid[p].burn_state = UNBURNED

\* C24: initialize fails with an InvalidDimension error and leaves the grid it
\* held unchanged whenever the classification is not square or its side
\* differs from the configured grid size, smaller or larger; a larger
\* classification is never silently truncated and no partially built grid
\* is left behind.
C24_InvalidDimension ==
    grid = <<>> =>
        \A terrain_grid \in InputLayouts(grid_size) :
            DOMAIN terrain_grid # Positions(grid_size) =>
                ~ENABLED (/\ InitializeFromTerrainGrid(terrain_grid)
                          /\ ~(/\ last'.ret = "InvalidDimension"
                               /\ grid' = grid))

\* the spread probability from the cell at p to the cell at q on grid g
SpreadProbability(g, cond, p, q) ==
    CalculateSpreadProbability(cond, g[p], g[q], p[1], p[2], q[1], q[2])

\* the targets to which nothing can spread
SpreadProof(cell) ==
    \/ TerrainParams(cell.terrain_type).spread_probability = 0
    \/ cell.burn_state # UNBURNED
    \/ cell.fuel_load <= 0
    \/ cell.moisture = Scale

\* the trials the burning cell at p runs, under every outcome of the draws:
\* a neighbour at probability 0 is left as it is, one at probability 1 is
\* set alight
TrialsDecided(p) ==
    LET nbs == Range(GetNeighbors(grid_size, p[1], p[2]))
    IN  \A draw \in [{<<p, q>> : q \in nbs} -> Draws] :
            LET r == UpdateBurningCell(grid, conditions, grid_size, p, draw)
            IN  \A q \in nbs :
                  /\ SpreadProbability(grid, conditions, p, q) = 0 =>
                        /\ r.grid[q] = grid[q]
                        /\ q \notin Range(r.newly_burning)
                  /\ SpreadProbability(grid, conditions, p, q) = Scale =>
                        /\ r.grid[q].burn_state = BURNING
                        /\ q \in Range(r.newly_burning)

\* C26: for every source and target and every environmental setting the
\* spread probability lies in [0, 1], and it is exactly 0 when the target's
\* baseline spread_probability is 0, the target is not Unburned, its fuel_load
\* is <= 0 or its moisture is 1.0; a trial at probability 0 never ignites and
\* a trial at probability 1 always ignites.
C26_ProbabilityClamped ==
    Registered =>
        \A p \in DOMAIN grid :
            /\ \A q \in Range(GetNeighbors(grid_size, p[1], p[2])) :
                  /\ SpreadProbability(grid, conditions, p, q) \in 0..Scale
                  /\ SpreadProof(grid[q]) =>
                        SpreadProbability(grid, conditions, p, q) = 0
            /\ grid[p].burn_state = BURNING => TrialsDecided(p)

\* in hot, dry air with a strong wind to the south-east the tick has run the
\* trials of the burning cell (0,0): the grass diagonally downwind, where the
\* unclamped product is 1.197, caught fire at probability 1, and the saturated
\* grass at (0,1) stayed Unburned at probability 0
C26_Witness ==
    /\ Registered
    /\ last.op = "step"
    /\ tick_count = 1
    /\ conditions.temperature = 40 /\ conditions.humidity = 30
    /\ conditions.wind_speed = 100 /\ conditions.wind_direction = "SOUTHEAST"
    /\ conditions.rain_probability = 0
    /\ grid[<<0, 0>>].burn_state = BURNING
    /\ CalculateSpreadProbability(conditions, grid[<<0, 0>>],
            InitialCell(TerrainData("grass", None), DefaultConditions),
            0, 0, 1, 1) = Scale
    /\ grid[<<1, 1>>].burn_state = BURNING
    /\ grid[<<0, 1>>].burn_state = UNBURNED /\ grid[<<0, 1>>].moisture = Scale
    /\ SpreadProbability(grid, conditions, <<0, 0>>, <<0, 1>>) = 0

\* the factors of the spread probability from a cell to the cell at q that
\* the weather and the target determine
TempFactor(cond) == Scale + (cond.temperature - 20) * 20
HumidityFactor(cond) == Scale - (cond.humidity - 50) * 10
RainFactor(cond) == Scale - FMul(cond.rain_probability, RainWeight)
MoistureFactor(cell) == Scale - cell.moisture

\* one of the factors is zero or negative
SomeFactorNotPositive(g, cond, p, q) ==
    \/ TerrainParams(g[q].terrain_type).spread_probability <= 0
    \/ g[p].burn_intensity <= 0
    \/ MoistureFactor(g[q]) <= 0
    \/ g[q].fuel_load <= 0
    \/ TempFactor(cond) <= 0
    \/ HumidityFactor(cond) <= 0
    \/ RainFactor(cond) <= 0

\* C27: each of the six spread factors is a non-negative multiplier.  When any
\* one factor is <= 0 (temp_factor below -30 degrees, humidity_factor above
\* 150 %, rain_factor above rain_probability 1.25, the moisture factor at a
\* moisture above 1) the spread probability is 0 whatever the other factors
\* are: two negative factors never combine into a positive probability.
C27_NonNegativeFactors ==
    Registered =>
        \A p \in DOMAIN grid :
            \A q \in Range(GetNeighbors(grid_size, p[1], p[2])) :
                SomeFactorNotPositive(grid, conditions, p, q) =>
                    SpreadProbability(grid, conditions, p, q) = 0

\* the (row, col) offset each compass direction points to
CompassOffset ==
    [d \in WindDirection |->
        CASE d = "NORTH" -> <<-1, 0>> [] d = "NORTHEAST" -> <<-1, 1>>
          [] d = "EAST" -> <<0, 1>>   [] d = "SOUTHEAST" -> <<1, 1>>
          [] d = "SOUTH" -> <<1, 0>>  [] d = "SOUTHWEST" -> <<1, -1>>
          [] d = "WEST" -> <<0, -1>>  [] d = "NORTHWEST" -> <<-1, -1>>]

\* the wind effect on spread from a cell to its neighbour at offset o
WindEffectAt(cond, o) == CalculateWindEffect(cond, 0, 0, o[1], o[2])

\* C28: for each of the 8 wind directions (North = (-1, 0), East = (0, 1), ...)
\* and every wind_speed >= 0, the wind effect on spread to a Moore neighbour is
\* at least 0.1 and at most 1.5, is largest for the neighbour lying exactly in
\* the wind direction, smallest for the neighbour exactly opposite, 1 for the
\* neighbours perpendicular to the wind, and 1 for all eight neighbours when
\* wind_speed = 0.
C28_WindEffect ==
    LET w == CompassOffset[conditions.wind_direction]
        offsets == Range(moore_neighbors)
    IN  conditions.wind_speed >= 0 =>
          \A o \in offsets :
              /\ WindEffectAt(conditions, o) >= MinWindEffect
              /\ WindEffectAt(conditions, o) <= Scale + 500
              /\ WindEffectAt(conditions, o) <= WindEffectAt(conditions, w)
              /\ WindEffectAt(conditions, o) >= WindEffectAt(conditions, <<-w[1], -w[2]>>)
              /\ o[1] * w[1] + o[2] * w[2] = 0 => WindEffectAt(conditions, o) = Scale
              /\ conditions.wind_speed = 0 => WindEffectAt(conditions, o) = Scale
              /\ conditions.wind_speed > 0 /\ o # w =>
                    WindEffectAt(conditions, o) < WindEffectAt(conditions, w)
              /\ conditions.wind_speed > 0 /\ o # <<-w[1], -w[2]>> =>
                    WindEffectAt(conditions, o) > WindEffectAt(conditions, <<-w[1], -w[2]>>)

\* a tick has run under a wind of 100 km/h to the north-west: the effect is 1.5
\* towards the north-west neighbour, 0.5 towards the south-east one, which the
\* burning cell (0,0) has, and 1 across the wind
C28_Witness ==
    /\ Registered
    /\ last.op = "step"
    /\ conditions.wind_speed = 100
    /\ conditions.wind_direction = "NORTHWEST"
    /\ grid[<<0, 0>>].burn_state = BURNING
    /\ WindEffectAt(conditions, <<-1, -1>>) = Scale + 500
    /\ WindEffectAt(conditions, <<1, 1>>) = 500
    /\ WindEffectAt(conditions, <<-1, 1>>) = Scale

\* a cell with its terrain kind replaced by grass
AsGrass(cell) == [cell EXCEPT !.terrain_type = "grass"]

\* every operation does to the cell what it does to its grass twin
LikeGrass(cell, cond) ==
    /\ \A intensity \in Intensities :
          CanIgnite(cell, intensity) <=> CanIgnite(AsGrass(cell), intensity)
    /\ AsGrass(ConsumeCell(cell)) = ConsumeCell(AsGrass(cell))
    /\ AsGrass(BurnOut(ConsumeCell(cell), cond)) =
          BurnOut(ConsumeCell(AsGrass(cell)), cond)
    /\ \A o \in Range(moore_neighbors) :
          \A target \in {cell, [cell EXCEPT !.burn_state = UNBURNED]} :
              CalculateSpreadProbability(cond, SourceAt(AsGrass(cell), Scale), target,
                                         0, 0, o[1], o[2])
                = CalculateSpreadProbability(cond, SourceAt(AsGrass(cell), Scale),
                                             AsGrass(target), 0, 0, o[1], o[2])
    /\ ResetCell(cell, cond).fuel_load = Scale

ProcessedWithLeastDraws(p) ==
    UpdateBurningCell(grid, conditions, grid_size, p,
        [pr \in {<<p, q>> : q \in Range(GetNeighbors(grid_size, p[1], p[2]))} |-> 0])

\* the burn-out condition on the cell as the consumption of this tick leaves it
BurnsOutThisTick(p) ==
    \/ ConsumeCell(grid[p]).burn_duration
          >= TerrainParams(grid[p].terrain_type).max_burn_duration
    \/ ConsumeCell(grid[p]).fuel_load <= BurnoutFuel

\* C32: within one cell's update the order is consume fuel, heat, dry and
\* increment the duration, then attempt spread to the neighbours, then the
\* burn-out check.  A burning cell attempts to spread in every tick in which
\* it is processed, the tick in which it burns out included, and those trials
\* use its burn_intensity before it is zeroed.
C32_SpreadBeforeBurnOut ==
    Registered =>
        \A p \in DOMAIN grid :
            grid[p].burn_state = BURNING =>
                LET r == ProcessedWithLeastDraws(p)
                IN  /\ r.grid[p].burn_state =
                          IF BurnsOutThisTick(p) THEN BURNED ELSE BURNING
                    /\ BurnsOutThisTick(p) => r.grid[p].burn_intensity = 0
                    /\ r.grid[p].fuel_load = ConsumeCell(grid[p]).fuel_load
                    /\ r.grid[p].burn_duration = grid[p].burn_duration + 1
                    /\ \A q \in Range(GetNeighbors(grid_size, p[1], p[2])) :
                          SpreadProbability(grid, conditions, p, q) > 0 =>
                              /\ grid[p].burn_intensity > 0
                              /\ r.grid[q].burn_state = BURNING
                              /\ r.grid[q].burn_intensity =
                                    Min(Scale, FMul(grid[p].burn_intensity,
                                                    SpreadAttenuation))
                              /\ q \in Range(r.newly_burning)

\* the grass cell (0,0), ignited at intensity 1.0, burned out in the second
\* tick (burn_duration 3) and in that same tick set its neighbour (0,1) alight
\* at intensity 0.8; no other cell has burned
C32_Witness ==
    /\ Registered
    /\ last.op = "step"
    /\ tick_count = 2
    /\ grid[<<0, 0>>].burn_state = BURNED
    /\ grid[<<0, 0>>].burn_duration = 3
    /\ grid[<<0, 0>>].burn_intensity = 0
    /\ grid[<<0, 1>>].burn_state = BURNING
    /\ grid[<<0, 1>>].burn_duration = 1
    /\ grid[<<0, 1>>].burn_intensity = 800
    /\ \A p \in DOMAIN grid : p \notin {<<0, 0>>, <<0, 1>>} =>
            grid[p].burn_state = UNBURNED

\* how far a cell has come: Unburned, Burning, Burned
Stage(cell) ==
    CASE cell.burn_state = UNBURNED -> 0
      [] cell.burn_state = BURNING -> 1
      [] cell.burn_state = BURNED -> 2
      [] OTHER -> 3

\* C33: between resets a cell's burn_state only moves forward, Unburned ->
\* Burning -> Burned.  A Burned cell is never set alight again by ignite_cell
\* or by spread, even with fuel left, and never returns to Unburned, a Burning
\* cell never returns to Unburned, and the ASH state is never entered.
C33_BurnStateForward ==
    /\ [](\A p \in DOMAIN grid : grid[p].burn_state \in {UNBURNED, BURNING, BURNED})
    /\ [][Registered /\ last'.op # "reset" =>
            \A p \in DOMAIN grid :
                /\ Stage(grid'[p]) >= Stage(grid[p])
                /\ grid[p].burn_state = BURNED => grid'[p].burn_state = BURNED]_vars

\* the grass cell (0,0) is Burned with a quarter of its fuel left; its
\* neighbour (0,1), which it ignited, has been processed by the tick just run
\* while (0,0) lay next to it
C33_Witness ==
    /\ Registered
    /\ last.op = "step"
    /\ tick_count = 3
    /\ grid[<<0, 0>>].burn_state = BURNED
    /\ grid[<<0, 0>>].fuel_load > BurnoutFuel
    /\ grid[<<0, 1>>].burn_state = BURNING
    /\ grid[<<0, 1>>].burn_duration = 2

\* some cell of the grid burns
AnyBurning == \E p \in DOMAIN grid : grid[p].burn_state = BURNING

\* C34: the fire always dies out.  With no reset and ignite_cell called only
\* during the first ticks, repeated step() calls lead from every state in
\* which a cell burns to a grid with no Burning cell, whatever the layout, the
\* weather and the outcome of the random trials; on such a grid step()
\* reports is_active = false and changes only tick_count.
C34_FireDiesOut ==
    /\ AnyBurning ~> (Registered /\ ~AnyBurning)
    /\ [][Registered /\ ~AnyBurning /\ last'.op = "step" =>
            /\ last'.ret.is_active = FALSE
            /\ last'.ret.burning_cells = 0
            /\ grid' = grid
            /\ conditions' = conditions
            /\ tick_count' = tick_count + 1]_vars

\* the fire that began at the grass cell (0,0) has crossed the strip and burned
\* out in the forest cell; the tick just run found no Burning cell
C34_Witness ==
    /\ Registered
    /\ ~AnyBurning
    /\ last.op = "step"
    /\ last.ret.is_active = FALSE
    /\ grid[<<0, 0>>].burn_state = BURNED
    /\ grid[<<0, 1>>].burn_state = BURNED
    /\ grid[<<0, 2>>].burn_state = BURNED
    /\ grid[<<0, 2>>].burn_duration = 8

\* C35: in every tick newly_ignited counts each cell at most once, a cell set
\* alight by one source not being ignited or counted again by a second burning
\* neighbour, and equals the number of cells that were Unburned before the
\* tick and are Burning after it; hence statistics.burning after the tick =
\* burning_cells before - cells that burned out in the tick + newly_ignited.
C35_NewlyIgnitedCount ==
    [][last'.op = "step" =>
        LET caught == {p \in DOMAIN grid : /\ grid[p].burn_state = UNBURNED
                                           /\ grid'[p].burn_state = BURNING}
            out == {p \in DOMAIN grid : /\ grid[p].burn_state = BURNING
                                        /\ grid'[p].burn_state = BURNED}
        IN  /\ last'.ret.newly_ignited = Cardinality(caught)
            /\ last'.ret.burning_cells = Cardinality(CellsIn(grid, BURNING))
            /\ last'.ret.statistics.burning =
                  last'.ret.burning_cells - Cardinality(out) + last'.ret.newly_ignited]_vars

\* the grass cell (0,1) lay between two burning cells, the grass at (0,0) and
\* the forest at (0,2), whose trials it could both pass; the tick reports one
\* newly ignited cell and three burning ones
C35_Witness ==
    /\ Registered
    /\ last.op = "step"
    /\ tick_count = 1
    /\ grid[<<0, 0>>].burn_state = BURNING /\ grid[<<0, 0>>].burn_duration = 2
    /\ grid[<<0, 2>>].burn_state = BURNING /\ grid[<<0, 2>>].burn_duration = 2
    /\ grid[<<0, 1>>].burn_state = BURNING /\ grid[<<0, 1>>].burn_duration = 1
    /\ last.ret.burning_cells = 2
    /\ last.ret.newly_ignited = 1
    /\ last.ret.statistics.burning = 3

\* C36: between operations no Burning cell already satisfies the burn-out
\* condition.  After initialize, ignite_cell, step or reset returns, every
\* Burning cell has burn_intensity > 0, 1 <= burn_duration < the
\* max_burn_duration of its terrain, and fuel_load > 0.1, for every flammable
\* terrain kind, those with max_burn_duration = 1 included.
C36_BurningNotBurntOut ==
    Registered =>
        \A p \in DOMAIN grid :
            grid[p].burn_state = BURNING =>
                /\ grid[p].burn_intensity > 0
                /\ 1 <= grid[p].burn_duration
                /\ grid[p].burn_duration
                      < TerrainParams(grid[p].terrain_type).max_burn_duration
                /\ grid[p].fuel_load > BurnoutFuel

\* C37: a cell's burn_intensity is fixed at the moment it ignites and does not
\* change while it is Burning; a cell ignited by spread has an intensity
\* strictly below that of the source that ignited it and at most 0.8, so that
\* each spread hop away from a directly ignited cell lowers the intensity by
\* the factor 0.8.
C37_IntensityFixedAndAttenuated ==
    [][Registered =>
        \A p \in DOMAIN grid :
            /\ grid[p].burn_state = BURNING /\ grid'[p].burn_state = BURNING =>
                  grid'[p].burn_intensity = grid[p].burn_intensity
            /\ /\ last'.op = "step"
               /\ grid[p].burn_state = UNBURNED
               /\ grid'[p].burn_state = BURNING
               => /\ grid'[p].burn_intensity <= SpreadAttenuation
                  /\ \E q \in Range(GetNeighbors(grid_size, p[1], p[2])) :
                        /\ grid[q].burn_state = BURNING
                        /\ grid'[p].burn_intensity < grid[q].burn_intensity
                        /\ grid'[p].burn_intensity =
                              FMul(grid[q].burn_intensity, SpreadAttenuation)]_vars

\* two hops from the grass cell (0,0), ignited at intensity 1.0: the grass cell
\* (0,1) burns at 0.8 and the forest cell (0,2), which it set alight, at 0.64
C37_Witness ==
    /\ Registered
    /\ last.op = "step"
    /\ grid[<<0, 0>>].burn_duration = 3
    /\ grid[<<0, 1>>].burn_state = BURNING
    /\ grid[<<0, 1>>].burn_intensity = 800
    /\ grid[<<0, 1>>].burn_duration = 2
    /\ grid[<<0, 2>>].burn_state = BURNING
    /\ grid[<<0, 2>>].burn_intensity = 640
    /\ grid[<<0, 2>>].burn_duration = 1

\* C38: a step request with steps = n executes at most n ticks and stops when
\* there are no more active fires: it stops after the first tick at whose end
\* no cell is Burning and never executes a tick on a grid that has no Burning
\* cell, so that current_tick counts only ticks in which some cell was burning.
C38_StepRequestStopsWithFire ==
    [][last'.op = "step_simulation" =>
        LET results == last'.ret.step_results
        IN  /\ last'.ret.steps_executed <= last'.arg
            /\ last'.ret.current_tick = tick_count + last'.ret.steps_executed
            /\ \A i \in 1..Len(results) : results[i].burning_cells > 0
            /\ \A i \in 1..(Len(results) - 1) : results[i].statistics.burning > 0]_vars

\* the cells of the FireSimulation whose fire_state is burning
FireBurning(sim) == {p \in DOMAIN sim.grid : sim.grid[p].fire_state = FIRE_BURNING}

\* C39: in the FireSimulation engine the cached statistics always agree with
\* the grid: after any sequence of ignite_at, step, set_weather and reset,
\* burning_cells is the number of cells whose fire_state is burning and
\* is_active() is true exactly when some cell is burning; so a step request of
\* at least one step that finds a burning cell executes at least one step.
C39_StatisticsAgreeWithGrid ==
    /\ [](/\ simulation.burning_cells = Cardinality(FireBurning(simulation))
          /\ IsActive(simulation) <=> FireBurning(simulation) # {})
    /\ [][(/\ last'.op = "step_simulation"
           /\ last'.arg >= 1
           /\ FireBurning(simulation) # {})
              => last'.ret.steps_executed >= 1]_vars

\* C40: FireSimulation.ignite_at(x, y) returns True only when the target cell
\* actually becomes burning: for an out-of-bounds coordinate, or an in-bounds
\* cell that cannot ignite (water or urban terrain, fuel_load 0, already
\* burning or burned), it returns False and changes no cell, so the ignite
\* endpoint reports success only when a fire was started.
C40_IgniteReportsFireStarted ==
    [][last'.op = "ignite_fire" =>
        LET target == last'.arg
            can_ignite == /\ target \in DOMAIN simulation.grid
                          /\ FireCellCanIgnite(simulation.grid[target])
        IN  /\ last'.ret.success =>
                /\ can_ignite
                /\ simulation'.grid[target].fire_state = FIRE_BURNING
            /\ ~can_ignite =>
                /\ ~last'.ret.success
                /\ simulation'.grid = simulation.grid]_vars

====
